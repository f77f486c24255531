-------------------------- MODULE SchedulerProofs --------------------------
(* Proofs about Scheduler, for any sets of jobs, workers, results and       *)
(* pickers, and any bound on the allocated objects.                         *)
EXTENDS Scheduler, TLAPS

-----------------------------------------------------------------------------
(* The send on queueEvent changes nothing but a picker's program counter    *)
(* and the token, and keeps both in their types.                            *)
LEMMA NotifyTyping ==
  ASSUME TypeOK, Notify
  PROVE  queueEvent' \in BOOLEAN /\ pickPc' \in [Pickers -> PickPcs]
BY DEF TypeOK, Notify, Parked, PickPcs

(* Every reachable state is well typed: in particular no pointer dangles.   *)
LEMMA Typing == Init => TypeOK
<1>1. <<>> \in Seq(Pointers)
      /\ <<>> \in Seq([job : JobSpecs, result : Results \cup {NoResult}, closes : Nat])
  OBVIOUS
<1> QED
  BY <1>1 DEF Init, TypeOK, PickPcs, Nil

(* Every step keeps every variable in its type. *)
LEMMA TypingStep ==
  ASSUME TypeOK, [Next]_vars
  PROVE  TypeOK'
<1>1. ASSUME NEW job \in JobSpecs, ScheduleCompleted(job)
      PROVE  TypeOK'
  <2>1. job.id \in JobIDs
    BY SpecsAssumption
  <2>2. Pointers \subseteq Pointers'
    BY <1>1 DEF TypeOK, ScheduleCompleted, Allocate, Pointers
  <2>3. allocated' \in Seq([job : JobSpecs, result : Results \cup {NoResult},
                            closes : Nat])
    BY <1>1, <2>1 DEF TypeOK, ScheduleCompleted, Allocate, Object
  <2> QED
    BY <1>1, <2>2, <2>3 DEF TypeOK, ScheduleCompleted, pickVars
<1>2. ASSUME NEW job \in JobSpecs, ScheduleNew(job)
      PROVE  TypeOK'
  <2>1. job.id \in JobIDs
    BY SpecsAssumption
  <2>2. /\ Pointers \subseteq Pointers'
        /\ Len(allocated') \in Pointers'
    BY <1>2 DEF TypeOK, ScheduleNew, Enqueue, Allocate, Pointers
  <2>3. allocated' \in Seq([job : JobSpecs, result : Results \cup {NoResult},
                            closes : Nat])
    BY <1>2 DEF TypeOK, ScheduleNew, Enqueue, Allocate, Object
  <2>4. queue' \in Seq(Pointers')
    BY <1>2, <2>2 DEF TypeOK, ScheduleNew, Enqueue
  <2>5. pending' \in [JobIDs -> Pointers' \cup {Nil}]
    BY <1>2, <2>1, <2>2 DEF TypeOK, ScheduleNew, Enqueue
  <2>6. queueEvent' \in BOOLEAN /\ pickPc' \in [Pickers -> PickPcs]
    BY <1>2, NotifyTyping DEF ScheduleNew, Enqueue
  <2> QED
    BY <1>2, <2>2, <2>3, <2>4, <2>5, <2>6 DEF TypeOK, ScheduleNew, Enqueue, pickVars
<1>3. ASSUME NEW w \in Workers, NEW id \in JobIDs,
             NEW res \in Results \cup {NoResult}, OnJobComplete(w, id, res)
      PROVE  TypeOK'
  <2>1. artifacts' \in [JobIDs -> SUBSET Workers]
    BY <1>3 DEF TypeOK, OnJobComplete, RecordHolder
  <2>2. CASE CompleteUnknown(id, res) \/ CompleteWithoutResult(id, res)
    BY <1>3, <2>1, <2>2 DEF TypeOK, OnJobComplete, CompleteUnknown,
       CompleteWithoutResult, Pointers, pickVars
  <2>3. CASE CompletePending(id, res)
    <3>1. pending[id] \in Pointers
      BY <2>3 DEF TypeOK, CompletePending
    <3> DEFINE Objects == [job : JobSpecs, result : Results \cup {NoResult},
                           closes : Nat]
               old == allocated[pending[id]]
               new == Object(old.job, res, old.closes + 1)
    <3>2. old \in Objects
      <4>1. allocated \in Seq(Objects) /\ pending[id] \in 1..Len(allocated)
        BY <3>1 DEF TypeOK, Pointers
      <4> HIDE DEF Objects
      <4> QED
        BY <4>1
    <3>3. new \in Objects
      BY <3>2 DEF Object
    <3>4. allocated' = [allocated EXCEPT ![pending[id]] = new]
      BY <2>3 DEF CompletePending
    <3> HIDE DEF old, new
    <3>5. allocated' \in Seq(Objects) /\ Len(allocated') = Len(allocated)
      <4>1. allocated \in Seq(Objects) /\ pending[id] \in 1..Len(allocated)
        BY <3>1 DEF TypeOK, Pointers
      <4> HIDE DEF Objects
      <4> QED
        BY <4>1, <3>3, <3>4
    <3>6. Pointers' = Pointers
      BY <3>5 DEF Pointers
    <3> QED
      BY <1>3, <2>1, <2>3, <3>5, <3>6 DEF TypeOK, OnJobComplete, CompletePending, pickVars
  <2> QED
    BY <1>3, <2>2, <2>3 DEF OnJobComplete
<1>4. ASSUME NEW p \in Pickers, PickCall(p) \/ PickStopped(p) \/ PickEmpty(p)
                 \/ PickToken(p) \/ PickPark(p) \/ PickCancelled(p) \/ PickReturn(p)
      PROVE  TypeOK'
  BY <1>4 DEF TypeOK, PickCall, PickStopped, PickEmpty, PickToken, PickPark,
     PickCancelled, PickReturn, schedVars, pickVars, Pointers, PickPcs, Nil
<1>5. ASSUME NEW p \in Pickers, PickHead(p)
      PROVE  TypeOK'
  <2>1. Head(queue) \in Pointers /\ Tail(queue) \in Seq(Pointers)
    BY <1>5 DEF TypeOK, PickHead
  <2> QED
    BY <1>5, <2>1 DEF TypeOK, PickHead, schedVars, Pointers, PickPcs, Nil
<1>6. CASE Stop
  BY <1>6 DEF TypeOK, Stop, schedVars, pickVars, Pointers
<1>7. CASE StopNotify
  BY <1>7, NotifyTyping DEF TypeOK, StopNotify, schedVars, pickVars, Pointers
<1>8. CASE UNCHANGED vars
  BY <1>8 DEF TypeOK, vars, Pointers
<1> QED
  BY <1>1, <1>2, <1>3, <1>4, <1>5, <1>6, <1>7, <1>8
  DEF Next, ScheduleJob, SchedulePending, PickStep

(* Every reachable state of the scheduler is well typed: in particular the    *)
(* queue, the pending map and the pickers hold pointers to objects that      *)
(* exist.                                                                    *)
THEOREM TypeCorrect == Spec => []TypeOK
<1>1. Init => TypeOK
  BY Typing
<1>2. TypeOK /\ [Next]_vars => TypeOK'
  BY TypingStep
<1> QED
  BY <1>1, <1>2, PTL DEF Spec

-----------------------------------------------------------------------------
(* The job of an object is one of the jobs, its result one of the results.   *)
LEMMA JobOfTyping ==
  ASSUME TypeOK
  PROVE  \A h \in Pointers : JobOf(h) \in JobIDs
<1> DEFINE Objects == [job : JobSpecs, result : Results \cup {NoResult}, closes : Nat]
<1>1. \A o \in Objects : o.job.id \in JobIDs
  BY SpecsAssumption
<1>2. allocated \in Seq(Objects)
  BY DEF TypeOK
<1> HIDE DEF Objects
<1>3. \A h \in 1..Len(allocated) : allocated[h] \in Objects
  BY <1>2
<1> QED
  BY <1>1, <1>3 DEF Pointers, JobOf

(* What Append does to the heap: the new object is at the next pointer, the *)
(* objects already there are untouched.                                     *)
LEMMA AllocateFacts ==
  ASSUME TypeOK, NEW object, Allocate(object)
  PROVE  /\ Pointers' = Pointers \cup {Len(allocated) + 1}
         /\ Len(allocated) + 1 \notin Pointers
         /\ Len(allocated') = Len(allocated) + 1
         /\ \A h \in Pointers : allocated'[h] = allocated[h]
         /\ allocated'[Len(allocated) + 1] = object
BY DEF TypeOK, Allocate, Pointers

(* What the fields of a fresh object are. *)
LEMMA ObjectFields ==
  ASSUME NEW job, NEW res, NEW closes
  PROVE  /\ Object(job, res, closes).job = job
         /\ Object(job, res, closes).result = res
         /\ Object(job, res, closes).closes = closes
BY DEF Object

(* What the resolution of a pending job does to the heap. *)
LEMMA ResolveFacts ==
  ASSUME TypeOK, NEW id \in JobIDs, NEW res \in Results, CompletePending(id, res)
  PROVE  /\ pending[id] \in Pointers
         /\ Pointers' = Pointers
         /\ \A h \in Pointers : h # pending[id] => allocated'[h] = allocated[h]
         /\ allocated'[pending[id]].job = allocated[pending[id]].job
         /\ allocated'[pending[id]].result = res
         /\ allocated'[pending[id]].closes = allocated[pending[id]].closes + 1
<1>1. pending[id] \in 1..Len(allocated)
  BY DEF TypeOK, CompletePending, Pointers
<1> DEFINE old == allocated[pending[id]]
           new == Object(old.job, res, old.closes + 1)
<1>2. allocated' = [allocated EXCEPT ![pending[id]] = new]
  BY DEF CompletePending
<1>3. /\ new.job = old.job
      /\ new.result = res
      /\ new.closes = old.closes + 1
  BY ObjectFields
<1>4. allocated \in Seq([job : JobSpecs, result : Results \cup {NoResult}, closes : Nat])
  BY DEF TypeOK
<1> HIDE DEF new
<1>5. /\ Len(allocated') = Len(allocated)
      /\ \A h \in 1..Len(allocated) : h # pending[id] => allocated'[h] = allocated[h]
      /\ allocated'[pending[id]] = new
  BY <1>1, <1>2, <1>4
<1> QED
  BY <1>1, <1>3, <1>5 DEF Pointers

-----------------------------------------------------------------------------
(* The steps that touch neither the objects nor the queue: program counters, *)
(* the token, the flags, the recorded locations.                             *)
Quiet == UNCHANGED <<queue, pending, completed, allocated, got, handed>>

(* A quiet step that stays within the types keeps the inductive invariant.   *)
LEMMA QuietStep ==
  ASSUME IInv, TypeOK', Quiet
  PROVE  IInv'
BY DEF IInv, Quiet, CloseOnce, WaitersShareOnePendingJob, PendingIsOpen,
   ClosedIsKnown, NoJobIsLost, FirstInFirstOut, JobIsHandedOnce, GotWasHanded,
   PickersGetDifferentJobs, Pointers, Open, InQueue, JobOf

(* The empty scheduler satisfies the inductive invariant. *)
LEMMA InitIInv == Init => IInv
BY Typing DEF Init, IInv, CloseOnce, WaitersShareOnePendingJob, PendingIsOpen,
   ClosedIsKnown, NoJobIsLost, FirstInFirstOut, JobIsHandedOnce, GotWasHanded,
   PickersGetDifferentJobs, Pointers, Open, InQueue, JobOf, Nil

(* PickReturn forgets the pointer it returned and disturbs nothing else.     *)
LEMMA ReturnStep ==
  ASSUME IInv, TypeOK', NEW p \in Pickers, PickReturn(p)
  PROVE  IInv'
<1>1. /\ UNCHANGED <<queue, pending, completed, allocated, handed>>
      /\ \A q \in Pickers : got'[q] # Nil => q # p /\ got'[q] = got[q]
  BY DEF PickReturn, schedVars, IInv, TypeOK
<1>2. GotWasHanded' /\ PickersGetDifferentJobs'
  BY <1>1 DEF IInv, GotWasHanded, PickersGetDifferentJobs
<1> QED
  BY <1>1, <1>2 DEF IInv, CloseOnce, WaitersShareOnePendingJob, PendingIsOpen,
     ClosedIsKnown, NoJobIsLost, FirstInFirstOut, JobIsHandedOnce,
     Pointers, Open, InQueue, JobOf

-----------------------------------------------------------------------------
(* PickHead moves the head of the queue to the handed pointers. *)
LEMMA HeadStep ==
  ASSUME IInv, TypeOK', NEW p \in Pickers, PickHead(p)
  PROVE  IInv'
<1>1. /\ queue \in Seq(Pointers)
      /\ queue # <<>>
      /\ queue' = Tail(queue)
      /\ handed' = handed \cup {Head(queue)}
      /\ got' = [got EXCEPT ![p] = Head(queue)]
      /\ UNCHANGED <<pending, completed, allocated>>
  BY DEF PickHead, schedVars, IInv, TypeOK
<1> PICK head : head = Head(queue)
  OBVIOUS
<1>2. /\ Len(queue) \in Nat \ {0}
      /\ 1 \in DOMAIN queue
      /\ head = queue[1]
      /\ head \in Pointers
      /\ DOMAIN queue' = 1..(Len(queue) - 1)
      /\ DOMAIN queue = 1..Len(queue)
      /\ \A i \in DOMAIN queue' : i + 1 \in DOMAIN queue /\ queue'[i] = queue[i + 1]
  BY <1>1
<1>3. \A i \in DOMAIN queue' : head < queue'[i]
  BY <1>2 DEF IInv, FirstInFirstOut
<1>4. FirstInFirstOut'
  <2>1. \A i, j \in DOMAIN queue' : i < j => queue'[i] < queue'[j]
    BY <1>2 DEF IInv, FirstInFirstOut
  <2>2. \A h \in handed', i \in DOMAIN queue' : h < queue'[i]
    BY <1>1, <1>2, <1>3 DEF IInv, FirstInFirstOut
  <2> QED
    BY <2>1, <2>2 DEF FirstInFirstOut
<1>5. \A h \in Pointers : InQueue(h) <=> h = head \/ InQueue(h)'
  <2>1. ASSUME NEW h \in Pointers, InQueue(h), h # head
        PROVE  InQueue(h)'
    <3>1. PICK i \in DOMAIN queue : queue[i] = h
      BY <2>1 DEF InQueue
    <3>2. i - 1 \in DOMAIN queue' /\ queue'[i - 1] = h
      BY <1>2, <2>1, <3>1
    <3> QED
      BY <3>2 DEF InQueue
  <2>2. ASSUME NEW h \in Pointers, InQueue(h)'
        PROVE  InQueue(h)
    BY <1>2, <2>2 DEF InQueue
  <2>3. InQueue(head)
    BY <1>2 DEF InQueue
  <2> QED
    BY <2>1, <2>2, <2>3
<1>6. ~InQueue(head)'
  BY <1>2, <1>3 DEF InQueue, Pointers
<1>7. NoJobIsLost'
  BY <1>1, <1>2, <1>5, <1>6 DEF IInv, NoJobIsLost, Pointers, Open
<1>8. JobIsHandedOnce'
  BY <1>1, <1>2, <1>5 DEF IInv, JobIsHandedOnce, Pointers, JobOf
<1>9. GotWasHanded' /\ PickersGetDifferentJobs'
  <2>1. head \notin handed
    BY <1>2 DEF IInv, FirstInFirstOut, Pointers
  <2>2. \A q \in Pickers : got'[q] = IF q = p THEN head ELSE got[q]
    BY <1>1, <1>2 DEF IInv, TypeOK
  <2> QED
    BY <1>1, <1>2, <2>1, <2>2 DEF IInv, GotWasHanded, PickersGetDifferentJobs
<1> QED
  BY <1>1, <1>4, <1>7, <1>8, <1>9 DEF IInv, CloseOnce, WaitersShareOnePendingJob,
     PendingIsOpen, ClosedIsKnown, Pointers, Open, JobOf

-----------------------------------------------------------------------------
(* ScheduleJob of a job with a known result allocates a closed object. *)
LEMMA ScheduleCompletedStep ==
  ASSUME IInv, TypeOK', NEW job \in JobSpecs, ScheduleCompleted(job)
  PROVE  IInv'
<1> PICK n : n = Len(allocated) + 1
  OBVIOUS
<1> DEFINE object == Object(job, completed[job.id], 1)
<1>1. /\ completed[job.id] # NoResult
      /\ Allocate(object)
      /\ UNCHANGED <<queue, pending, completed, got, handed>>
  BY DEF ScheduleCompleted, pickVars
<1>2. /\ Pointers' = Pointers \cup {n}
      /\ n \notin Pointers
      /\ \A h \in Pointers : allocated'[h] = allocated[h]
      /\ allocated'[n] = object
  BY <1>1, AllocateFacts DEF IInv
<1>3. object.job = job /\ object.result = completed[job.id] /\ object.closes = 1
  BY ObjectFields
<1>4. TypeOK /\ n \notin handed /\ ~InQueue(n)
  BY <1>2 DEF IInv, TypeOK, InQueue
<1> HIDE DEF object
<1>5. \A h \in Pointers : Open(h)' = Open(h) /\ JobOf(h)' = JobOf(h)
  BY <1>2 DEF Open, JobOf
<1>6. ~Open(n)' /\ JobOf(n)' = job.id
  BY <1>2, <1>3 DEF Open, JobOf
<1>7. \A h : InQueue(h)' = InQueue(h)
  BY <1>1 DEF InQueue
<1>8. CloseOnce'
  BY <1>1, <1>2, <1>3, <1>5, <1>6 DEF IInv, CloseOnce
<1>9. WaitersShareOnePendingJob' /\ ClosedIsKnown'
  BY <1>1, <1>2, <1>5, <1>6 DEF IInv, WaitersShareOnePendingJob, ClosedIsKnown
<1>10. PendingIsOpen'
  BY <1>1, <1>2, <1>4, <1>5 DEF IInv, PendingIsOpen, TypeOK
<1>11. NoJobIsLost' /\ JobIsHandedOnce'
  BY <1>1, <1>2, <1>4, <1>5, <1>6, <1>7 DEF IInv, NoJobIsLost, JobIsHandedOnce
<1> QED
  BY <1>1, <1>8, <1>9, <1>10, <1>11 DEF IInv, FirstInFirstOut, GotWasHanded,
     PickersGetDifferentJobs

(* ScheduleJob of an unknown job allocates an open object and queues it.    *)
(* That no handed or queued object has this job already is the heart of the *)
(* argument: an open one would be in pending, a closed one in completed.    *)
LEMMA ScheduleNewStep ==
  ASSUME IInv, TypeOK', NEW job \in JobSpecs, ScheduleNew(job)
  PROVE  IInv'
<1> PICK n : n = Len(allocated) + 1
  OBVIOUS
<1> DEFINE object == Object(job, NoResult, 0)
<1>1. /\ completed[job.id] = NoResult
      /\ pending[job.id] = Nil
      /\ Allocate(object)
      /\ UNCHANGED <<completed, got, handed>>
  BY DEF ScheduleNew, Enqueue, pickVars
<1>2. /\ Pointers' = Pointers \cup {n}
      /\ n \notin Pointers
      /\ Len(allocated') = n
      /\ \A h \in Pointers : allocated'[h] = allocated[h]
      /\ allocated'[n] = object
  BY <1>1, AllocateFacts DEF IInv
<1>3. object.job = job /\ object.result = NoResult /\ object.closes = 0
  BY ObjectFields
<1>4. TypeOK /\ job.id \in JobIDs /\ n \notin handed
  BY <1>2, SpecsAssumption DEF IInv, TypeOK
<1>5. \A h \in Pointers : h < n
  BY DEF IInv, TypeOK, Pointers
<1> HIDE DEF object
<1>6. \A id \in JobIDs : pending'[id] = IF id = job.id THEN n ELSE pending[id]
  BY <1>2, <1>4 DEF ScheduleNew, Enqueue, TypeOK
<1>7. /\ DOMAIN queue' = 1..(Len(queue) + 1)
      /\ DOMAIN queue = 1..Len(queue)
      /\ Len(queue) \in Nat
      /\ queue'[Len(queue) + 1] = n
      /\ \A i \in DOMAIN queue : queue'[i] = queue[i] /\ queue[i] \in Pointers
  BY <1>2, <1>4 DEF ScheduleNew, Enqueue, TypeOK
<1>8. \A h : InQueue(h)' <=> h = n \/ InQueue(h)
  <2>1. ASSUME NEW h, h = n \/ InQueue(h)
        PROVE  InQueue(h)'
    BY <1>7, <2>1 DEF InQueue
  <2>2. ASSUME NEW h, InQueue(h)', h # n
        PROVE  InQueue(h)
    <3>1. PICK i \in DOMAIN queue' : queue'[i] = h
      BY <2>2 DEF InQueue
    <3>2. i \in DOMAIN queue
      BY <1>7, <2>2, <3>1
    <3> QED
      BY <1>7, <3>1, <3>2 DEF InQueue
  <2> QED
    BY <2>1, <2>2
<1>9. \A h \in Pointers : Open(h)' = Open(h) /\ JobOf(h)' = JobOf(h)
  BY <1>2 DEF Open, JobOf
<1>10. Open(n)' /\ JobOf(n)' = job.id
  BY <1>2, <1>3 DEF Open, JobOf
<1>11. \A h \in Pointers : JobOf(h) # job.id
  <2>1. ASSUME NEW h \in Pointers, JobOf(h) = job.id
        PROVE  FALSE
    <3>1. CASE Open(h)
      BY <1>1, <1>5, <2>1, <3>1 DEF IInv, WaitersShareOnePendingJob, Nil, Pointers
    <3>2. CASE ~Open(h)
      BY <1>1, <2>1, <3>2 DEF IInv, ClosedIsKnown
    <3> QED
      BY <3>1, <3>2
  <2> QED
    BY <2>1
<1>12. CloseOnce'
  BY <1>1, <1>2, <1>3, <1>9, <1>10 DEF IInv, CloseOnce
<1>13. WaitersShareOnePendingJob'
  <2>1. \A h \in Pointers : JobOf(h) \in JobIDs
    BY <1>4, JobOfTyping
  <2> QED
    BY <1>2, <1>4, <1>6, <1>9, <1>10, <1>11, <2>1 DEF IInv, WaitersShareOnePendingJob
<1>14. PendingIsOpen'
  BY <1>1, <1>2, <1>4, <1>6, <1>9, <1>10 DEF IInv, PendingIsOpen, TypeOK
<1>15. ClosedIsKnown'
  BY <1>1, <1>2, <1>9, <1>10 DEF IInv, ClosedIsKnown
<1>16. NoJobIsLost'
  BY <1>1, <1>2, <1>4, <1>8, <1>9, <1>10 DEF IInv, NoJobIsLost
<1>17. FirstInFirstOut'
  <2>1. \A i, j \in DOMAIN queue' : i < j => queue'[i] < queue'[j]
    <3>1. SUFFICES ASSUME NEW i \in DOMAIN queue', NEW j \in DOMAIN queue', i < j
                   PROVE  queue'[i] < queue'[j]
      OBVIOUS
    <3>2. i \in DOMAIN queue
      BY <1>7, <3>1
    <3>3. CASE j \in DOMAIN queue
      BY <1>7, <3>1, <3>2, <3>3 DEF IInv, FirstInFirstOut
    <3>4. CASE j = Len(queue) + 1
      BY <1>5, <1>7, <3>2, <3>4
    <3> QED
      BY <1>7, <3>1, <3>3, <3>4
  <2>2. ASSUME NEW h \in handed', NEW i \in DOMAIN queue'
        PROVE  h < queue'[i]
    <3>1. h \in Pointers /\ h \in handed
      BY <1>1, <1>4 DEF TypeOK
    <3>2. CASE i \in DOMAIN queue
      BY <1>7, <3>1, <3>2 DEF IInv, FirstInFirstOut
    <3>3. CASE i = Len(queue) + 1
      BY <1>5, <1>7, <3>1, <3>3
    <3> QED
      BY <1>7, <3>2, <3>3
  <2> QED
    BY <2>1, <2>2 DEF FirstInFirstOut
<1>18. JobIsHandedOnce'
  BY <1>1, <1>2, <1>8, <1>9, <1>10, <1>11 DEF IInv, JobIsHandedOnce
<1> QED
  BY <1>1, <1>12, <1>13, <1>14, <1>15, <1>16, <1>17, <1>18
  DEF IInv, GotWasHanded, PickersGetDifferentJobs

-----------------------------------------------------------------------------
(* OnJobComplete of a job that is not pending. *)
LEMMA CompleteUnknownStep ==
  ASSUME IInv, TypeOK', NEW id \in JobIDs, NEW res \in Results \cup {NoResult},
         CompleteUnknown(id, res), UNCHANGED <<queue, got, handed>>
  PROVE  IInv'
<1>1. /\ UNCHANGED <<pending, allocated, queue, got, handed>>
      /\ pending[id] = Nil
  BY DEF CompleteUnknown
<1>2. \A j \in JobIDs : /\ completed[j] # NoResult => completed'[j] # NoResult
                        /\ j # id => completed'[j] = completed[j]
  BY DEF CompleteUnknown, IInv, TypeOK
<1>3. PendingIsOpen'
  BY <1>1, <1>2 DEF IInv, PendingIsOpen, Open, JobOf
<1>4. ClosedIsKnown'
  <2>1. \A h \in Pointers : JobOf(h) \in JobIDs
    BY JobOfTyping DEF IInv
  <2> QED
    BY <1>1, <1>2, <2>1 DEF IInv, ClosedIsKnown, Open, JobOf, Pointers
<1> QED
  BY <1>1, <1>3, <1>4 DEF IInv, CloseOnce, WaitersShareOnePendingJob, NoJobIsLost,
     FirstInFirstOut, JobIsHandedOnce, GotWasHanded, PickersGetDifferentJobs,
     Pointers, Open, InQueue, JobOf

(* OnJobComplete with a result of a job that is pending. *)
LEMMA CompletePendingStep ==
  ASSUME IInv, TypeOK', NEW id \in JobIDs, NEW res \in Results,
         CompletePending(id, res), UNCHANGED <<queue, got, handed>>
  PROVE  IInv'
<1> PICK d : d = pending[id]
  OBVIOUS
<1>1. /\ d \in Pointers
      /\ Pointers' = Pointers
      /\ \A h \in Pointers : h # d => allocated'[h] = allocated[h]
      /\ allocated'[d].job = allocated[d].job
      /\ allocated'[d].result = res
      /\ allocated'[d].closes = allocated[d].closes + 1
  BY ResolveFacts DEF IInv
<1>2. /\ d # Nil
      /\ JobOf(d) = id
      /\ allocated[d].closes = 0
      /\ res # NoResult
  BY <1>1 DEF CompletePending, IInv, PendingIsOpen, Open
<1>3. \A j \in JobIDs : /\ pending'[j] = IF j = id THEN Nil ELSE pending[j]
                        /\ completed'[j] = IF j = id THEN res ELSE completed[j]
  BY DEF CompletePending, IInv, TypeOK
<1>4. \A h \in Pointers : /\ JobOf(h) \in JobIDs
                          /\ JobOf(h)' = JobOf(h)
                          /\ h # d => Open(h)' = Open(h)
  BY <1>1, JobOfTyping DEF IInv, JobOf, Open
<1>5. ~Open(d)'
  BY <1>1, <1>2 DEF Open
<1>6. \A h : InQueue(h)' = InQueue(h)
  BY DEF InQueue
<1>7. CloseOnce'
  BY <1>1, <1>2, <1>4, <1>5 DEF IInv, CloseOnce
<1>8. WaitersShareOnePendingJob' /\ ClosedIsKnown'
  BY <1>1, <1>2, <1>3, <1>4, <1>5 DEF IInv, WaitersShareOnePendingJob, ClosedIsKnown
<1>9. PendingIsOpen'
  BY <1>1, <1>2, <1>3, <1>4 DEF IInv, PendingIsOpen, TypeOK
<1>10. NoJobIsLost' /\ JobIsHandedOnce'
  BY <1>1, <1>4, <1>5, <1>6 DEF IInv, NoJobIsLost, JobIsHandedOnce
<1> QED
  BY <1>7, <1>8, <1>9, <1>10 DEF IInv, FirstInFirstOut, GotWasHanded,
     PickersGetDifferentJobs

(* OnJobComplete, whatever is known of the job. *)
LEMMA CompleteStep ==
  ASSUME IInv, TypeOK', NEW w \in Workers, NEW id \in JobIDs,
         NEW res \in Results \cup {NoResult}, OnJobComplete(w, id, res)
  PROVE  IInv'
<1>1. UNCHANGED <<queue, got, handed>>
  BY DEF OnJobComplete, pickVars
<1>2. CASE CompleteUnknown(id, res)
  BY <1>1, <1>2, CompleteUnknownStep
<1>3. CASE CompleteWithoutResult(id, res)
  BY <1>1, <1>3, QuietStep DEF CompleteWithoutResult, Quiet
<1>4. CASE CompletePending(id, res)
  BY <1>1, <1>4, CompletePendingStep DEF CompletePending
<1> QED
  BY <1>2, <1>3, <1>4 DEF OnJobComplete

-----------------------------------------------------------------------------
(* Every step keeps the inductive invariant: one case for each action.       *)
LEMMA IInvStep ==
  ASSUME IInv, [Next]_vars
  PROVE  IInv'
<1>1. TypeOK'
  BY TypingStep DEF IInv
<1>2. ASSUME NEW job \in JobSpecs, ScheduleJob(job)
      PROVE  IInv'
  <2>1. CASE SchedulePending(job)
    BY <1>1, <2>1, QuietStep DEF SchedulePending, vars, Quiet
  <2> QED
    BY <1>1, <1>2, <2>1, ScheduleCompletedStep, ScheduleNewStep DEF ScheduleJob
<1>3. ASSUME NEW p \in Pickers,
             PickCall(p) \/ PickStep(p) \/ PickCancelled(p) \/ PickReturn(p)
      PROVE  IInv'
  <2>1. CASE PickCall(p) \/ PickStopped(p) \/ PickEmpty(p) \/ PickToken(p)
             \/ PickPark(p) \/ PickCancelled(p)
    <3>1. Quiet
      BY <2>1 DEF PickCall, PickStopped, PickEmpty, PickToken, PickPark,
         PickCancelled, schedVars, pickVars, Quiet
    <3> QED
      BY <1>1, <3>1, QuietStep
  <2> QED
    BY <1>1, <1>3, <2>1, HeadStep, ReturnStep DEF PickStep
<1>4. CASE Stop \/ StopNotify \/ UNCHANGED vars
  <2>1. Quiet
    BY <1>4 DEF Stop, StopNotify, vars, schedVars, pickVars, Quiet
  <2> QED
    BY <1>1, <2>1, QuietStep
<1> QED
  BY <1>1, <1>2, <1>3, <1>4, CompleteStep DEF Next

(* The inductive invariant holds of every reachable state. *)
THEOREM Invariance == Spec => []IInv
<1>1. Init => IInv
  BY InitIInv
<1>2. IInv /\ [Next]_vars => IInv'
  BY IInvStep
<1> QED
  BY <1>1, <1>2, PTL DEF Spec

(* A job is handed out at most once, to one caller and in scheduling order, *)
(* and a job some build waits for is queued or handed out, never forgotten. *)
THEOREM JobsAreHandedOnceInOrder == Spec => []JobsAreHandedOutInOrder
<1>1. IInv => JobsAreHandedOutInOrder
  BY DEF IInv, JobsAreHandedOutInOrder
<1> QED
  BY <1>1, Invariance, PTL

(* An open object is the one in pending, and a pending job has no result    *)
(* yet: as soon as a result is known nobody waits for the job.              *)
LEMMA KnownMeansAnswered ==
  ASSUME IInv
  PROVE  NobodyWaitsForAKnownResult
<1> SUFFICES ASSUME NEW h \in Pointers, completed[JobOf(h)] # NoResult, Open(h)
             PROVE  FALSE
  BY DEF NobodyWaitsForAKnownResult
<1>1. JobOf(h) \in JobIDs
  BY JobOfTyping DEF IInv
<1>2. pending[JobOf(h)] = h /\ h # Nil
  BY DEF IInv, WaitersShareOnePendingJob, Pointers, Nil
<1> QED
  BY <1>1, <1>2 DEF IInv, PendingIsOpen

(* Finished is closed once, exactly when Result is set and a result becomes *)
(* known; the builds that wait for a job wait on the object in pending.     *)
THEOREM EveryWaiterIsAnswered == Spec => []WaitersAreAnswered
<1>1. IInv => WaitersAreAnswered
  BY KnownMeansAnswered DEF IInv, WaitersAreAnswered
<1> QED
  BY <1>1, Invariance, PTL

-----------------------------------------------------------------------------
(* A delivered result never changes under the build that reads it. *)
THEOREM DeliveredResultsAreStable == Spec => DeliveredResultIsStable
<1>1. ASSUME IInv, [Next]_vars, NEW h \in Pointers, ~Open(h)
      PROVE  allocated'[h] = allocated[h]
  <2>1. CASE UNCHANGED allocated
    BY <2>1
  <2>2. ASSUME NEW object, Allocate(object)
        PROVE  allocated'[h] = allocated[h]
    BY <1>1, <2>2, AllocateFacts DEF IInv
  <2>3. ASSUME NEW id \in JobIDs, NEW res \in Results, CompletePending(id, res)
        PROVE  allocated'[h] = allocated[h]
    <3>1. pending[id] # h
      BY <1>1, <2>3 DEF IInv, PendingIsOpen, CompletePending
    <3> QED
      BY <1>1, <2>3, <3>1, ResolveFacts DEF IInv
  <2>4. \/ UNCHANGED allocated
        \/ \E object : Allocate(object)
        \/ \E id \in JobIDs, res \in Results : CompletePending(id, res)
    BY <1>1 DEF Next, ScheduleJob, ScheduleCompleted, SchedulePending, ScheduleNew, Enqueue,
       OnJobComplete, CompleteUnknown, CompleteWithoutResult, CompletePending,
       PickCall, PickStep, PickStopped, PickHead, PickEmpty, PickToken, PickPark,
       PickCancelled, PickReturn, Stop, StopNotify, vars, schedVars
  <2> QED
    BY <2>1, <2>2, <2>3, <2>4
<1>2. IInv /\ [Next]_vars =>
        [\A h \in Pointers : ~Open(h) => allocated'[h] = allocated[h]]_vars
  BY <1>1
<1> QED
  BY <1>2, Invariance, PTL DEF Spec, DeliveredResultIsStable

-----------------------------------------------------------------------------
(* The refinement.  Objects keep their job for ever, so the images of old   *)
(* pointers under the mapping do not move.                                  *)
LEMMA BoardUnchanged ==
  ASSUME TypeOK, UNCHANGED <<queue, handed, pending, completed>>,
         Pointers \subseteq Pointers',
         \A h \in Pointers : JobOf(h)' = JobOf(h)
  PROVE  UNCHANGED Board!vars
<1>1. queue \in Seq(Pointers) /\ handed \subseteq Pointers
  BY DEF TypeOK
<1>2. [i \in DOMAIN queue |-> JobOf(queue[i])]' = [i \in DOMAIN queue |-> JobOf(queue[i])]
  BY <1>1
<1>3. {JobOf(h) : h \in handed}' = {JobOf(h) : h \in handed}
  BY <1>1
<1>4. {id \in JobIDs : pending[id] # Nil}' = {id \in JobIDs : pending[id] # Nil}
  OBVIOUS
<1> QED
  BY <1>2, <1>3, <1>4 DEF Board!vars

(* ScheduleJob of an unknown job posts it on the board.                      *)
LEMMA BoardPost ==
  ASSUME IInv, NEW job \in JobSpecs, ScheduleNew(job)
  PROVE  Board!Post(job.id)
<1> PICK n : n = Len(allocated) + 1
  OBVIOUS
<1> DEFINE object == Object(job, NoResult, 0)
           line == [i \in DOMAIN queue |-> JobOf(queue[i])]
<1>1. Allocate(object)
  BY DEF ScheduleNew, Enqueue
<1>2. /\ Len(allocated') = n
      /\ \A h \in Pointers : allocated'[h] = allocated[h]
      /\ allocated'[n] = object
  BY <1>1, AllocateFacts DEF IInv
<1>3. object.job = job
  BY ObjectFields
<1>4. TypeOK /\ job.id \in JobIDs
  BY SpecsAssumption DEF IInv
<1> HIDE DEF object
<1>5. JobOf(n)' = job.id /\ \A h \in Pointers : JobOf(h)' = JobOf(h)
  BY <1>2, <1>3 DEF JobOf
<1>6. line' = Append(line, job.id)
  <2>1. /\ Len(queue) \in Nat
        /\ DOMAIN queue = 1..Len(queue)
        /\ DOMAIN queue' = 1..(Len(queue) + 1)
        /\ queue'[Len(queue) + 1] = n
        /\ \A i \in DOMAIN queue : queue'[i] = queue[i] /\ queue[i] \in Pointers
    BY <1>2, <1>4 DEF ScheduleNew, Enqueue, TypeOK
  <2>2. \A i \in 1..Len(queue) : line'[i] = line[i]
    BY <1>5, <2>1
  <2>3. line'[Len(queue) + 1] = job.id
    BY <1>5, <2>1
  <2>4. line \in Seq(JobIDs) /\ Len(line) = Len(queue)
    BY <2>1, <1>4, JobOfTyping
  <2>5. line' = [i \in 1..(Len(line) + 1) |-> line'[i]]
    BY <2>1, <2>4
  <2> HIDE DEF line
  <2>6. Append(line, job.id) =
          [i \in 1..(Len(line) + 1) |-> IF i = Len(line) + 1 THEN job.id ELSE line[i]]
    BY <2>4
  <2> QED
    BY <2>1, <2>2, <2>3, <2>4, <2>5, <2>6
<1>7. {JobOf(h) : h \in handed}' = {JobOf(h) : h \in handed}
  BY <1>4, <1>5 DEF ScheduleNew, Enqueue, pickVars, TypeOK
<1>8. {id \in JobIDs : pending[id] # Nil}' = {id \in JobIDs : pending[id] # Nil} \cup {job.id}
  BY <1>2, <1>4 DEF ScheduleNew, Enqueue, TypeOK, Nil
<1> QED
  BY <1>6, <1>7, <1>8 DEF Board!Post, ScheduleNew, Enqueue

(* PickHead takes the first job of the line. *)
LEMMA BoardTake ==
  ASSUME IInv, NEW p \in Pickers, PickHead(p)
  PROVE  Board!Take
<1> DEFINE line == [i \in DOMAIN queue |-> JobOf(queue[i])]
<1>1. /\ queue \in Seq(Pointers)
      /\ queue # <<>>
      /\ queue' = Tail(queue)
      /\ handed' = handed \cup {Head(queue)}
      /\ UNCHANGED <<pending, completed, allocated>>
      /\ \A h : JobOf(h)' = JobOf(h)
  BY DEF PickHead, schedVars, IInv, TypeOK, JobOf
<1>2. /\ Len(queue) \in Nat \ {0}
      /\ DOMAIN queue = 1..Len(queue)
      /\ Head(queue) = queue[1]
      /\ DOMAIN queue' = 1..(Len(queue) - 1)
      /\ \A i \in DOMAIN queue' : queue'[i] = queue[i + 1]
  BY <1>1
<1>3. line \in Seq(JobIDs) /\ Len(line) = Len(queue) /\ line # <<>>
  BY <1>1, <1>2, JobOfTyping DEF IInv
<1>4. Head(line) = JobOf(Head(queue))
  BY <1>2, <1>3
<1>5. line' = [i \in 1..(Len(queue) - 1) |-> line[i + 1]]
  BY <1>1, <1>2
<1>6. Tail(line) = [i \in 1..(Len(line) - 1) |-> line[i + 1]]
  BY <1>3
<1>7. {JobOf(h) : h \in handed}' = {JobOf(h) : h \in handed} \cup {JobOf(Head(queue))}
  BY <1>1
<1>8. {id \in JobIDs : pending[id] # Nil}' = {id \in JobIDs : pending[id] # Nil}
  BY <1>1
<1>9. line' = Tail(line)
  BY <1>3, <1>5, <1>6
<1> QED
  BY <1>1, <1>3, <1>4, <1>7, <1>8, <1>9 DEF Board!Take

(* OnJobComplete with a result is a report. *)
LEMMA BoardReport ==
  ASSUME IInv, NEW id \in JobIDs, NEW res \in Results,
         CompleteUnknown(id, res) \/ CompletePending(id, res),
         UNCHANGED <<queue, handed>>
  PROVE  Board!Report(id, res)
<1>1. \A h \in Pointers : JobOf(h)' = JobOf(h)
  <2>1. CASE CompletePending(id, res)
    BY <2>1, ResolveFacts DEF IInv, JobOf
  <2> QED
    BY <2>1 DEF CompleteUnknown, JobOf
<1>2. completed' = [completed EXCEPT ![id] = res]
  BY NoResultAssumption DEF CompleteUnknown, CompletePending
<1>3. \A j \in JobIDs : pending'[j] = IF j = id THEN Nil ELSE pending[j]
  BY DEF CompleteUnknown, CompletePending, IInv, TypeOK
<1>4. {j \in JobIDs : pending[j] # Nil}' = {j \in JobIDs : pending[j] # Nil} \ {id}
  BY <1>3
<1>5. queue \in Seq(Pointers) /\ handed \subseteq Pointers
  BY DEF IInv, TypeOK
<1>6. [i \in DOMAIN queue |-> JobOf(queue[i])]' = [i \in DOMAIN queue |-> JobOf(queue[i])]
  BY <1>1, <1>5
<1>7. {JobOf(h) : h \in handed}' = {JobOf(h) : h \in handed}
  BY <1>1, <1>5
<1> QED
  BY <1>2, <1>4, <1>6, <1>7 DEF Board!Report

(* Every step of the scheduler is a step of the board, or a stutter.         *)
LEMMA BoardStep ==
  ASSUME IInv, [Next]_vars
  PROVE  [Board!Next]_(Board!vars)
<1>0. TypeOK
  BY DEF IInv
<1>1. ASSUME UNCHANGED <<queue, handed, pending, completed, allocated>>
      PROVE  UNCHANGED Board!vars
  BY <1>0, <1>1, BoardUnchanged DEF Pointers, JobOf
<1>2. ASSUME NEW job \in JobSpecs, ScheduleJob(job)
      PROVE  [Board!Next]_(Board!vars)
  <2>1. CASE ScheduleCompleted(job)
    <3>1. PICK object : Allocate(object)
      BY <2>1 DEF ScheduleCompleted
    <3>2. Pointers \subseteq Pointers' /\ \A h \in Pointers : JobOf(h)' = JobOf(h)
      BY <1>0, <3>1, AllocateFacts DEF JobOf
    <3> QED
      BY <1>0, <2>1, <3>2, BoardUnchanged DEF ScheduleCompleted, pickVars
  <2>2. CASE SchedulePending(job)
    BY <1>1, <2>2 DEF SchedulePending, vars
  <2>3. CASE ScheduleNew(job)
    BY <2>3, BoardPost, SpecsAssumption DEF Board!Next
  <2> QED
    BY <1>2, <2>1, <2>2, <2>3 DEF ScheduleJob
<1>3. ASSUME NEW w \in Workers, NEW id \in JobIDs,
             NEW res \in Results \cup {NoResult}, OnJobComplete(w, id, res)
      PROVE  [Board!Next]_(Board!vars)
  <2>1. UNCHANGED <<queue, handed>>
    BY <1>3 DEF OnJobComplete, pickVars
  <2>2. CASE res # NoResult /\ (CompleteUnknown(id, res) \/ CompletePending(id, res))
    BY <2>1, <2>2, BoardReport DEF Board!Next
  <2>3. CASE CompleteWithoutResult(id, res)
    BY <1>1, <2>1, <2>3 DEF CompleteWithoutResult
  <2>4. CASE res = NoResult /\ CompleteUnknown(id, res)
    BY <1>1, <2>1, <2>4 DEF CompleteUnknown
  <2> QED
    BY <1>3, <2>2, <2>3, <2>4 DEF OnJobComplete, CompletePending
<1>4. ASSUME NEW p \in Pickers,
             PickCall(p) \/ PickStep(p) \/ PickCancelled(p) \/ PickReturn(p)
      PROVE  [Board!Next]_(Board!vars)
  <2>1. CASE PickHead(p)
    BY <2>1, BoardTake DEF Board!Next
  <2>2. CASE ~PickHead(p)
    BY <1>1, <1>4, <2>2 DEF PickStep, PickCall, PickStopped, PickEmpty, PickToken,
       PickPark, PickCancelled, PickReturn, schedVars, pickVars
  <2> QED
    BY <2>1, <2>2
<1>5. CASE Stop \/ StopNotify \/ UNCHANGED vars
  BY <1>1, <1>5 DEF Stop, StopNotify, vars, schedVars, pickVars
<1> QED
  BY <1>2, <1>3, <1>4, <1>5 DEF Next

(* The empty scheduler is the empty board. *)
LEMMA BoardInit == Init => Board!Init
<1> SUFFICES ASSUME Init PROVE Board!Init
  OBVIOUS
<1>1. [i \in DOMAIN queue |-> JobOf(queue[i])] = <<>>
  BY DEF Init
<1> QED
  BY <1>1 DEF Init, Board!Init, Nil

(* The scheduler implements the job board. *)
THEOREM SchedulerImplementsBoard == Spec => ImplementsBoard
<1>1. Init => Board!Init
  BY BoardInit
<1>2. IInv /\ [Next]_vars => [Board!Next]_(Board!vars)
  BY BoardStep
<1> QED
  BY <1>1, <1>2, Invariance, PTL DEF Spec, Board!Spec, ImplementsBoard
=============================================================================
