---------------------------- MODULE MatrixProofs ----------------------------
(***************************************************************************)
(* Safety of Matrix for every number of cases and every --jobs.            *)
(***************************************************************************)
EXTENDS Matrix, FiniteSetTheorems, SequenceTheorems, TLAPS

\* The queue holds exactly the waiting tasks, in slot order.
Queue ==
    /\ \A k \in 1 .. Len(waiters) : task[waiters[k]] = "waiting"
    /\ \A k, l \in 1 .. Len(waiters) : k < l => waiters[k] < waiters[l]
    /\ \A i \in Slots : task[i] = "waiting" => \E k \in 1 .. Len(waiters) : waiters[k] = i

\* Tasks start in slot order.  As long as some have not, none is granted a
\* permit, and the latest to start runs only if nobody waits.
Arrivals ==
    /\ \A i, j \in Slots : i < j /\ task[i] = "new" => task[j] = "new"
    /\ ~AllStarted => \A i \in Slots : task[i] # "granted"
    /\ ~AllStarted =>
         \A i \in Slots : task[i] = "running" /\ (\A j \in Slots : j > i => task[j] = "new")
                            => \A j \in Slots : task[j] # "waiting"

\* What each phase knows of the tasks, and what a returned case has left.
PhaseFacts ==
    /\ phase = "start" => \A i \in Slots : task[i] = "new"
    /\ phase \in {"cancelling", "failed"} =>
         \A i \in Slots : task[i] \notin {"new", "waiting"}
    /\ phase = "returned" => \A i \in Slots : task[i] = "returned"
    /\ \A i \in Slots : task[i] = "returned" => results[i] = "new" /\ verdict[i] \in Verdicts
    /\ orphans # {} => phase \in {"cancelling", "failed"}

IInv == /\ MatrixTypeOK /\ Queue /\ Arrivals /\ PhaseFacts
        /\ PermitsConserved /\ NoIdlePermit /\ NoOvertaking /\ IndexTellsThisRun

-----------------------------------------------------------------------------
LEMMA SlotsFinite == IsFiniteSet(Slots)
BY NumCasesAssumption, FS_Interval DEF Slots

LEMMA SlotsInt == \A i \in Slots : i \in Int
BY NumCasesAssumption DEF Slots

\* Counting the permits that are out.
LEMMA HoldersCount ==
    /\ IsFiniteSet(Holders) /\ Cardinality(Holders) \in Nat
    /\ \A i \in Slots : /\ i \in Holders => Cardinality(Holders \ {i}) = Cardinality(Holders) - 1
                        /\ i \notin Holders => Cardinality(Holders \cup {i}) = Cardinality(Holders) + 1
<1>1. IsFiniteSet(Holders)
  BY SlotsFinite, FS_Subset DEF Holders
<1> QED
  BY <1>1, FS_CardinalityType, FS_AddElement, FS_RemoveElement

\* The initial states satisfy the inductive invariant.
LEMMA InitInv == MatrixInit => IInv
<1> SUFFICES ASSUME MatrixInit PROVE IInv
  OBVIOUS
<1>1. MatrixTypeOK
  BY JobsAssumption DEF MatrixInit, MatrixTypeOK, Phases, TaskStates
<1>2. Queue /\ Arrivals /\ PhaseFacts /\ NoIdlePermit /\ NoOvertaking /\ IndexTellsThisRun
  BY DEF MatrixInit, Queue, Arrivals, PhaseFacts, NoIdlePermit, NoOvertaking, IndexTellsThisRun,
     AllStarted
<1>3. PermitsConserved
  <2>1. Holders = {}
    BY DEF MatrixInit, Holders
  <2> QED
    BY <2>1, FS_EmptySet, JobsAssumption DEF MatrixInit, PermitsConserved
<1> QED
  BY <1>1, <1>2, <1>3 DEF IInv

-----------------------------------------------------------------------------
(* The semaphore.                                                          *)

\* A release frees a permit when the queue is empty; otherwise it grants the
\* permit to the waiting task with the least slot.
LEMMA ReleaseGrants ==
    ASSUME MatrixTypeOK, Queue, NEW i \in Slots, task[i] = "running",
           NEW e \in {"returned", "raised"}, Release([task EXCEPT ![i] = e])
    PROVE  \/ /\ \A j \in Slots : task[j] # "waiting"
              /\ permits' = permits + 1 /\ waiters' = <<>>
              /\ task' = [task EXCEPT ![i] = e]
           \/ \E h \in Slots :
                /\ h # i /\ task[h] = "waiting" /\ \A j \in Slots : j < h => task[j] # "waiting"
                /\ permits' = permits
                /\ task' = [task EXCEPT ![i] = e, ![h] = "granted"]
<1>1. CASE waiters = <<>>
  BY <1>1 DEF Release, Queue, MatrixTypeOK
<1>2. CASE waiters # <<>>
  <2>1. /\ Len(waiters) \in Nat /\ 1 \in 1 .. Len(waiters)
        /\ Head(waiters) = waiters[1] /\ waiters[1] \in Slots
    BY <1>2 DEF MatrixTypeOK
  <2>2. task[Head(waiters)] = "waiting"
    BY <2>1 DEF Queue
  <2>3. ASSUME NEW j \in Slots, j < Head(waiters) PROVE task[j] # "waiting"
    <3>1. SUFFICES ASSUME task[j] = "waiting" PROVE FALSE
      OBVIOUS
    <3>2. PICK k \in 1 .. Len(waiters) : waiters[k] = j
      BY <3>1 DEF Queue
    <3>3. k = 1 \/ 1 < k
      BY <2>1
    <3>4. waiters[1] \in Int /\ j \in Int
      BY <2>1, SlotsInt
    <3>5. waiters[1] = j \/ waiters[1] < j
      BY <2>1, <3>2, <3>3 DEF Queue
    <3> QED
      BY <2>1, <2>3, <3>4, <3>5
  <2>4. task' = [task EXCEPT ![i] = e, ![Head(waiters)] = "granted"] /\ permits' = permits
    BY <1>2 DEF Release
  <2>5. Head(waiters) # i
    BY <2>2
  <2> QED
    BY <2>1, <2>2, <2>3, <2>4, <2>5
<1> QED
  BY <1>1, <1>2

\* A release keeps the queue in order, without the task it grants.
LEMMA ReleaseQueue ==
    ASSUME MatrixTypeOK, Queue, NEW i \in Slots, task[i] = "running",
           NEW e \in {"returned", "raised"}, Release([task EXCEPT ![i] = e])
    PROVE  waiters' \in Seq(Slots) /\ Queue'
<1>1. CASE waiters = <<>>
  <2>1. waiters' = <<>> /\ task' = [task EXCEPT ![i] = e]
    BY <1>1 DEF Release
  <2>2. \A j \in Slots : task'[j] # "waiting"
    BY <1>1, <2>1 DEF Queue, MatrixTypeOK
  <2> QED
    BY <2>1, <2>2 DEF Queue
<1>2. CASE waiters # <<>>
  <2>0. /\ waiters \in Seq(Slots) /\ Len(waiters) \in Nat \ {0}
        /\ Head(waiters) = waiters[1]
        /\ \A k \in 1 .. Len(waiters) : waiters[k] \in Slots
    BY <1>2 DEF MatrixTypeOK
  <2>1. /\ Len(waiters) \in Nat \ {0}
        /\ waiters' \in Seq(Slots) /\ Len(waiters') = Len(waiters) - 1
        /\ \A k \in 1 .. Len(waiters') : waiters'[k] = waiters[k + 1]
    <3>1. waiters' = Tail(waiters)
      BY <1>2 DEF Release
    <3> QED
      BY <1>2, <2>0, <3>1, HeadTailProperties
  <2>2. /\ task' = [task EXCEPT ![i] = e, ![waiters[1]] = "granted"]
        /\ \A k \in 1 .. Len(waiters) : waiters[k] \in Slots /\ waiters[k] \in Int
    <3>1. task' = [task EXCEPT ![i] = e, ![Head(waiters)] = "granted"]
      BY <1>2 DEF Release
    <3> QED
      BY <2>0, <3>1, SlotsInt
  <2>3. \A k \in 1 .. Len(waiters') : task'[waiters'[k]] = "waiting"
    <3> SUFFICES ASSUME NEW k \in 1 .. Len(waiters') PROVE task'[waiters'[k]] = "waiting"
      OBVIOUS
    <3>1. k + 1 \in 1 .. Len(waiters) /\ 1 < k + 1 /\ 1 \in 1 .. Len(waiters)
      BY <2>1
    <3>2. task[waiters[k + 1]] = "waiting" /\ waiters[1] < waiters[k + 1]
      BY <3>1 DEF Queue
    <3>3. waiters[k + 1] # waiters[1] /\ waiters[k + 1] # i
      BY <2>2, <3>1, <3>2
    <3> QED
      BY <2>1, <2>2, <3>1, <3>2, <3>3 DEF MatrixTypeOK
  <2>4. \A k, l \in 1 .. Len(waiters') : k < l => waiters'[k] < waiters'[l]
    <3> SUFFICES ASSUME NEW k \in 1 .. Len(waiters'), NEW l \in 1 .. Len(waiters'), k < l
                 PROVE  waiters'[k] < waiters'[l]
      OBVIOUS
    <3>1. k + 1 \in 1 .. Len(waiters) /\ l + 1 \in 1 .. Len(waiters) /\ k + 1 < l + 1
      BY <2>1
    <3>2. waiters[k + 1] < waiters[l + 1]
      BY <3>1 DEF Queue
    <3> QED
      BY <2>1, <3>2
  <2>5. ASSUME NEW j \in Slots, task'[j] = "waiting"
        PROVE  \E k \in 1 .. Len(waiters') : waiters'[k] = j
    <3>1. j # waiters[1] /\ task[j] = "waiting"
      BY <2>2, <2>5, <2>1 DEF MatrixTypeOK
    <3>2. PICK k \in 1 .. Len(waiters) : waiters[k] = j
      BY <3>1 DEF Queue
    <3>3. k - 1 \in 1 .. Len(waiters') /\ (k - 1) + 1 = k
      BY <2>1, <3>1, <3>2
    <3> QED
      BY <2>1, <3>2, <3>3
  <2> QED
    BY <2>1, <2>3, <2>4, <2>5 DEF Queue
<1> QED
  BY <1>1, <1>2

\* A release moves one permit: to the next task, or back to the semaphore.
LEMMA ReleaseConserves ==
    ASSUME MatrixTypeOK, Queue, PermitsConserved, NEW i \in Slots, task[i] = "running",
           NEW e \in {"returned", "raised"}, Release([task EXCEPT ![i] = e])
    PROVE  PermitsConserved' /\ permits' \in Nat
<1>0. i \in Holders
  BY DEF Holders
<1>1. CASE /\ \A j \in Slots : task[j] # "waiting"
           /\ permits' = permits + 1 /\ waiters' = <<>>
           /\ task' = [task EXCEPT ![i] = e]
  <2>1. Holders' = Holders \ {i}
    BY <1>1 DEF Holders, MatrixTypeOK
  <2> QED
    BY <1>0, <1>1, <2>1, HoldersCount, JobsAssumption DEF PermitsConserved, MatrixTypeOK
<1>2. CASE \E h \in Slots :
             /\ h # i /\ task[h] = "waiting" /\ \A j \in Slots : j < h => task[j] # "waiting"
             /\ permits' = permits
             /\ task' = [task EXCEPT ![i] = e, ![h] = "granted"]
  <2>1. PICK h \in Slots : /\ h # i /\ task[h] = "waiting"
                           /\ permits' = permits
                           /\ task' = [task EXCEPT ![i] = e, ![h] = "granted"]
    BY <1>2
  <2>2. h \notin Holders /\ Holders' = (Holders \cup {h}) \ {i}
    BY <2>1 DEF Holders, MatrixTypeOK
  <2>3. IsFiniteSet(Holders \cup {h}) /\ Cardinality(Holders \cup {h}) = Cardinality(Holders) + 1
    BY <2>2, HoldersCount, FS_AddElement
  <2>4. Cardinality(Holders') = Cardinality(Holders \cup {h}) - 1
    BY <1>0, <2>2, <2>3, FS_RemoveElement
  <2> QED
    BY <2>1, <2>3, <2>4, HoldersCount DEF PermitsConserved, MatrixTypeOK
<1> QED
  BY <1>1, <1>2, ReleaseGrants

-----------------------------------------------------------------------------
(* The steps.                                                              *)

\* The step of a task that takes its first step.
LEMMA ArriveStep ==
    ASSUME IInv, NEW i \in Slots, Arrive(i)
    PROVE  waiters' \in Seq(Slots) /\ permits' \in Nat /\ Queue' /\ PermitsConserved' /\ NoIdlePermit'
<1>0. /\ waiters \in Seq(Slots) /\ Len(waiters) \in Nat /\ permits \in Nat
      /\ task \in [Slots -> TaskStates] /\ task[i] = "new"
      /\ \A k \in 1 .. Len(waiters) : waiters[k] \in Slots
  BY DEF IInv, MatrixTypeOK, Arrive
<1>1. CASE Free /\ permits' = permits - 1 /\ task' = [task EXCEPT ![i] = "running"] /\ UNCHANGED waiters
  <2>1. \A j \in Slots : task[j] # "waiting" /\ task'[j] # "waiting"
    BY <1>0, <1>1 DEF Free
  <2>2. Len(waiters) = 0
    <3>1. \A k \in 1 .. Len(waiters) : FALSE
      BY <1>0, <2>1 DEF IInv, Queue
    <3> QED
      BY <1>0, <3>1
  <2>3. Queue' /\ NoIdlePermit'
    BY <1>1, <2>1, <2>2 DEF Queue, NoIdlePermit
  <2>4. i \notin Holders /\ Holders' = Holders \cup {i}
    BY <1>0, <1>1 DEF Holders
  <2>5. PermitsConserved' /\ permits' \in Nat
    BY <1>0, <1>1, <2>4, HoldersCount DEF IInv, PermitsConserved, Free
  <2> QED
    BY <1>0, <1>1, <2>3, <2>5
<1>2. CASE ~Free /\ task' = [task EXCEPT ![i] = "waiting"] /\ waiters' = Append(waiters, i)
           /\ UNCHANGED permits
  <2>1. /\ waiters' \in Seq(Slots) /\ Len(waiters') = Len(waiters) + 1
        /\ \A k \in 1 .. Len(waiters) : waiters'[k] = waiters[k]
        /\ waiters'[Len(waiters) + 1] = i
    BY <1>0, <1>2, AppendProperties
  <2>2. \A k \in 1 .. Len(waiters) : waiters[k] < i /\ waiters[k] # i
    <3> SUFFICES ASSUME NEW k \in 1 .. Len(waiters) PROVE waiters[k] < i
      BY <1>0, SlotsInt
    <3>1. task[waiters[k]] = "waiting" /\ waiters[k] \in Slots
      BY <1>0 DEF IInv, Queue
    <3>2. ~(i < waiters[k])
      BY <1>0, <3>1 DEF IInv, Arrivals
    <3> QED
      BY <1>0, <3>1, <3>2, SlotsInt
  <2>3. \A k \in 1 .. Len(waiters') : task'[waiters'[k]] = "waiting"
    <3> SUFFICES ASSUME NEW k \in 1 .. Len(waiters') PROVE task'[waiters'[k]] = "waiting"
      OBVIOUS
    <3>1. k \in 1 .. Len(waiters) \/ k = Len(waiters) + 1
      BY <1>0, <2>1
    <3> QED
      BY <1>0, <1>2, <2>1, <2>2, <3>1 DEF IInv, Queue
  <2>4. \A k, l \in 1 .. Len(waiters') : k < l => waiters'[k] < waiters'[l]
    <3> SUFFICES ASSUME NEW k \in 1 .. Len(waiters'), NEW l \in 1 .. Len(waiters'), k < l
                 PROVE  waiters'[k] < waiters'[l]
      OBVIOUS
    <3>1. k \in 1 .. Len(waiters) /\ (l \in 1 .. Len(waiters) \/ l = Len(waiters) + 1)
      BY <1>0, <2>1
    <3> QED
      BY <2>1, <2>2, <3>1 DEF IInv, Queue
  <2>5. \A j \in Slots : task'[j] = "waiting" => \E k \in 1 .. Len(waiters') : waiters'[k] = j
    <3> SUFFICES ASSUME NEW j \in Slots, task'[j] = "waiting"
                 PROVE  \E k \in 1 .. Len(waiters') : waiters'[k] = j
      OBVIOUS
    <3>1. CASE j = i
      BY <1>0, <2>1, <3>1
    <3>2. CASE j # i
      <4>1. PICK k \in 1 .. Len(waiters) : waiters[k] = j
        BY <1>0, <1>2, <3>2 DEF IInv, Queue
      <4> QED
        BY <1>0, <2>1, <4>1
    <3> QED
      BY <3>1, <3>2
  <2>6. permits = 0
    <3>1. ~AllStarted
      BY <1>0 DEF AllStarted
    <3> QED
      BY <1>0, <1>2, <3>1 DEF IInv, Free, Arrivals, NoIdlePermit
  <2>7. Holders' = Holders
    BY <1>0, <1>2 DEF Holders
  <2> QED
    BY <1>0, <1>2, <2>1, <2>3, <2>4, <2>5, <2>6, <2>7
       DEF IInv, Queue, NoIdlePermit, PermitsConserved
<1> QED
  BY <1>1, <1>2 DEF Arrive

\* A step that leaves the queue alone and moves no task in or out of waiting.
LEMMA QueueKept ==
    ASSUME Queue, waiters' = waiters,
           \A j \in Slots : task[j] = "waiting" <=> task'[j] = "waiting",
           waiters \in Seq(Slots)
    PROVE  Queue'
<1>1. \A k \in 1 .. Len(waiters) : waiters[k] \in Slots
  OBVIOUS
<1> QED
  BY <1>1 DEF Queue

\* A case returns or raises.
LEMMA EndStep ==
    ASSUME IInv, NEW i \in Slots, Finish(i) \/ Raise(i)
    PROVE  /\ waiters' \in Seq(Slots) /\ permits' \in Nat /\ task' \in [Slots -> TaskStates]
           /\ Queue' /\ PermitsConserved' /\ NoIdlePermit' /\ NoOvertaking' /\ Arrivals'
<1>0. /\ MatrixTypeOK /\ Queue /\ PermitsConserved /\ NoIdlePermit /\ NoOvertaking /\ Arrivals
      /\ task[i] = "running" /\ MayEnd(i)
      /\ \A j \in Slots : j \in Int
  BY SlotsInt DEF IInv, Finish, Raise
<1>1. PICK e \in {"returned", "raised"} : Release([task EXCEPT ![i] = e])
  BY DEF Finish, Raise
<1>2. waiters' \in Seq(Slots) /\ Queue' /\ PermitsConserved' /\ permits' \in Nat
  BY <1>0, <1>1, ReleaseQueue, ReleaseConserves
<1>3. CASE /\ \A j \in Slots : task[j] # "waiting"
           /\ permits' = permits + 1 /\ waiters' = <<>>
           /\ task' = [task EXCEPT ![i] = e]
  <2>1. task' \in [Slots -> TaskStates] /\ NoIdlePermit' /\ NoOvertaking'
    BY <1>0, <1>3 DEF MatrixTypeOK, TaskStates, NoIdlePermit, NoOvertaking
  <2>2. Arrivals'
    BY <1>0, <1>3 DEF MatrixTypeOK, Arrivals, AllStarted
  <2> QED
    BY <1>2, <2>1, <2>2
<1>4. CASE \E h \in Slots :
             /\ h # i /\ task[h] = "waiting" /\ \A j \in Slots : j < h => task[j] # "waiting"
             /\ permits' = permits
             /\ task' = [task EXCEPT ![i] = e, ![h] = "granted"]
  <2> PICK h \in Slots :
             /\ h # i /\ task[h] = "waiting" /\ \A j \in Slots : j < h => task[j] # "waiting"
             /\ permits' = permits
             /\ task' = [task EXCEPT ![i] = e, ![h] = "granted"]
    BY <1>4
  <2>1. task' \in [Slots -> TaskStates] /\ NoIdlePermit'
    BY <1>0 DEF MatrixTypeOK, TaskStates, NoIdlePermit
  <2>2. NoOvertaking'
    BY <1>0 DEF MatrixTypeOK, NoOvertaking
  <2>3. AllStarted
    BY <1>0 DEF MayEnd, Arrivals
  <2>4. Arrivals'
    BY <1>0, <2>3 DEF MatrixTypeOK, Arrivals, AllStarted
  <2> QED
    BY <1>2, <2>1, <2>2, <2>4
<1> QED
  BY <1>0, <1>1, <1>3, <1>4, ReleaseGrants

\* The semaphore's part of the invariant is kept by every step.
LEMMA SemaphoreStep ==
    ASSUME IInv, MatrixNext
    PROVE  waiters' \in Seq(Slots) /\ permits' \in Nat /\ task' \in [Slots -> TaskStates]
           /\ Queue' /\ PermitsConserved' /\ NoIdlePermit' /\ NoOvertaking' /\ Arrivals'
<1>0. /\ MatrixTypeOK /\ Queue /\ PermitsConserved /\ NoIdlePermit /\ NoOvertaking /\ Arrivals
      /\ PhaseFacts
      /\ \A j \in Slots : j \in Int
  BY SlotsInt DEF IInv
<1>1. ASSUME NEW i \in Slots, Arrive(i)
      PROVE  /\ waiters' \in Seq(Slots) /\ permits' \in Nat /\ task' \in [Slots -> TaskStates]
             /\ Queue' /\ PermitsConserved' /\ NoIdlePermit' /\ NoOvertaking' /\ Arrivals'
  <2>1. /\ task[i] = "new" /\ \A j \in Slots : j < i => task[j] # "new"
        /\ \/ Free /\ task' = [task EXCEPT ![i] = "running"]
           \/ ~Free /\ task' = [task EXCEPT ![i] = "waiting"]
    BY <1>1 DEF Arrive
  <2>2. task' \in [Slots -> TaskStates]
    BY <1>0, <2>1 DEF MatrixTypeOK, TaskStates
  <2>3. \A j \in Slots : i < j => task[j] = "new"
    BY <1>0, <2>1 DEF Arrivals
  <2>4. NoOvertaking'
    BY <1>0, <2>1, <2>3 DEF MatrixTypeOK, NoOvertaking, Free
  <2>5. ~AllStarted /\ \A j \in Slots : task'[j] # "granted"
    BY <1>0, <2>1 DEF MatrixTypeOK, Arrivals, AllStarted
  <2>6. \A j \in Slots : task'[j] = "running" /\ (\A k \in Slots : k > j => task'[k] = "new")
                           => j = i /\ Free
    BY <1>0, <2>1, <2>3 DEF MatrixTypeOK
  <2>7. Arrivals'
    BY <1>0, <2>1, <2>3, <2>5, <2>6 DEF MatrixTypeOK, Arrivals, AllStarted, Free
  <2> QED
    BY <1>0, <1>1, <2>2, <2>4, <2>7, ArriveStep
<1>2. ASSUME NEW i \in Slots, Resume(i)
      PROVE  /\ waiters' \in Seq(Slots) /\ permits' \in Nat /\ task' \in [Slots -> TaskStates]
             /\ Queue' /\ PermitsConserved' /\ NoIdlePermit' /\ NoOvertaking' /\ Arrivals'
  <2>1. /\ waiters' = waiters /\ permits' = permits
        /\ AllStarted /\ task[i] = "granted" /\ task' = [task EXCEPT ![i] = "running"]
    BY <1>2 DEF Resume, sem
  <2>2. task' \in [Slots -> TaskStates] /\ NoIdlePermit' /\ NoOvertaking' /\ Arrivals'
    BY <1>0, <2>1 DEF MatrixTypeOK, TaskStates, NoIdlePermit, NoOvertaking, Arrivals, AllStarted
  <2>3. Queue'
    BY <1>0, <2>1, QueueKept DEF MatrixTypeOK
  <2>4. Holders' = Holders
    BY <1>0, <2>1 DEF Holders, MatrixTypeOK
  <2> QED
    BY <1>0, <2>1, <2>2, <2>3, <2>4 DEF PermitsConserved, MatrixTypeOK
<1>3. ASSUME NEW i \in Slots, CancelOne(i)
      PROVE  /\ waiters' \in Seq(Slots) /\ permits' \in Nat /\ task' \in [Slots -> TaskStates]
             /\ Queue' /\ PermitsConserved' /\ NoIdlePermit' /\ NoOvertaking' /\ Arrivals'
  <2>1. /\ waiters' = waiters /\ permits' = permits + 1
        /\ task[i] \in {"granted", "running"} /\ task' = [task EXCEPT ![i] = "cancelled"]
        /\ \A j \in Slots : task[j] \notin {"new", "waiting"}
    BY <1>0, <1>3 DEF CancelOne, PhaseFacts
  <2>2. task' \in [Slots -> TaskStates] /\ NoIdlePermit' /\ NoOvertaking' /\ Arrivals'
    BY <1>0, <2>1 DEF MatrixTypeOK, TaskStates, NoIdlePermit, NoOvertaking, Arrivals, AllStarted
  <2>3. Queue'
    BY <1>0, <2>1, QueueKept DEF MatrixTypeOK
  <2>4. i \in Holders /\ Holders' = Holders \ {i}
    BY <1>0, <2>1 DEF Holders, MatrixTypeOK
  <2>5. Cardinality(Holders') = Cardinality(Holders) - 1 /\ Cardinality(Holders) \in Nat
    BY <2>4, HoldersCount
  <2>6. PermitsConserved' /\ permits' \in Nat
    BY <1>0, <2>1, <2>5 DEF PermitsConserved, MatrixTypeOK
  <2> QED
    BY <1>0, <2>1, <2>2, <2>3, <2>6 DEF MatrixTypeOK
<1>4. CASE CancelAll
  <2>1. /\ waiters' = <<>> /\ permits' = permits /\ AllStarted
        /\ task' = [i \in Slots |-> IF task[i] = "waiting" THEN "cancelled" ELSE task[i]]
    BY <1>4 DEF CancelAll
  <2>2. task' \in [Slots -> TaskStates] /\ NoIdlePermit' /\ NoOvertaking' /\ Arrivals'
    BY <1>0, <2>1 DEF MatrixTypeOK, TaskStates, NoIdlePermit, NoOvertaking, Arrivals, AllStarted
  <2>3. Queue'
    BY <2>1 DEF Queue
  <2>4. Holders' = Holders
    BY <1>0, <2>1 DEF Holders, MatrixTypeOK
  <2> QED
    BY <1>0, <2>1, <2>2, <2>3, <2>4 DEF PermitsConserved, MatrixTypeOK
<1>5. CASE UNCHANGED <<task, waiters, permits>>
  BY <1>0, <1>5 DEF MatrixTypeOK, Queue, PermitsConserved, Holders, NoIdlePermit, NoOvertaking,
     Arrivals, AllStarted
<1> QED
  BY <1>1, <1>2, <1>3, <1>4, <1>5, EndStep
     DEF MatrixNext, CaseStep, Begin, Return, Fail, OrphanExits, sem

\* The rest of the invariant: types, phases, and the results on disk.
LEMMA ResultsStep ==
    ASSUME IInv, MatrixNext
    PROVE  MatrixTypeOK' /\ PhaseFacts' /\ IndexTellsThisRun'
<1>0. /\ MatrixTypeOK /\ PhaseFacts /\ IndexTellsThisRun
      /\ waiters' \in Seq(Slots) /\ permits' \in Nat /\ task' \in [Slots -> TaskStates]
  BY SemaphoreStep DEF IInv
<1> USE DEF sem, disk
<1>1. ASSUME NEW i \in Slots, Arrive(i) \/ Resume(i) \/ CancelOne(i)
      PROVE  MatrixTypeOK' /\ PhaseFacts' /\ IndexTellsThisRun'
  <2>1. /\ phase' = phase /\ phase \in {"running", "failing", "cancelling"}
        /\ UNCHANGED <<results, index, listed, verdict>>
        /\ \A j \in Slots : task'[j] = "returned" => task[j] = "returned"
        /\ phase = "cancelling" =>
             \A j \in Slots : task'[j] \in {"new", "waiting"} => task[j] \in {"new", "waiting"}
    BY <1>0, <1>1 DEF Arrive, Resume, CancelOne, MatrixTypeOK
  <2>2. orphans' \in SUBSET Slots /\ (orphans' # {} => orphans # {} \/ phase = "cancelling")
    BY <1>0, <1>1 DEF Arrive, Resume, CancelOne, MatrixTypeOK
  <2>3. MatrixTypeOK'
    BY <1>0, <2>1, <2>2 DEF MatrixTypeOK
  <2> QED
    BY <1>0, <2>1, <2>2, <2>3 DEF PhaseFacts, IndexTellsThisRun
<1>2. ASSUME NEW i \in Slots, Finish(i)
      PROVE  MatrixTypeOK' /\ PhaseFacts' /\ IndexTellsThisRun'
  <2>1. PICK v \in Verdicts : verdict' = [verdict EXCEPT ![i] = v]
    BY <1>2 DEF Finish
  <2>2. /\ phase' = phase /\ phase \in {"running", "failing"} /\ UNCHANGED <<index, listed, orphans>>
        /\ results' = [results EXCEPT ![i] = "new"]
        /\ Release([task EXCEPT ![i] = "returned"])
    BY <1>2 DEF Finish
  <2>3. \A j \in Slots : task'[j] = "returned" => j = i \/ task[j] = "returned"
    BY <1>0, <2>2 DEF Release, MatrixTypeOK
  <2>4. MatrixTypeOK'
    BY <1>0, <2>1, <2>2 DEF MatrixTypeOK
  <2>5. PhaseFacts'
    BY <1>0, <2>1, <2>2, <2>3 DEF PhaseFacts, MatrixTypeOK
  <2> QED
    BY <1>0, <2>2, <2>4, <2>5 DEF IndexTellsThisRun, MatrixTypeOK
<1>3. ASSUME NEW i \in Slots, Raise(i)
      PROVE  MatrixTypeOK' /\ PhaseFacts' /\ IndexTellsThisRun'
  <2>1. /\ phase' = "failing" /\ phase \in {"running", "failing"}
        /\ UNCHANGED <<verdict, results, index, listed, orphans>>
        /\ Release([task EXCEPT ![i] = "raised"])
    BY <1>3 DEF Raise
  <2>2. \A j \in Slots : task'[j] = "returned" => task[j] = "returned"
    BY <1>0, <2>1 DEF Release, MatrixTypeOK
  <2> QED
    BY <1>0, <2>1, <2>2 DEF MatrixTypeOK, Phases, PhaseFacts, IndexTellsThisRun
<1>4. CASE Begin
  BY <1>0, <1>4 DEF Begin, ClearResults, MatrixTypeOK, Phases, PhaseFacts, IndexTellsThisRun
<1>5. CASE Return
  BY <1>0, <1>5 DEF Return, MatrixTypeOK, Phases, PhaseFacts, IndexTellsThisRun
<1>6. CASE CancelAll
  BY <1>0, <1>6 DEF CancelAll, AllStarted, MatrixTypeOK, Phases, PhaseFacts, IndexTellsThisRun
<1>7. CASE Fail
  BY <1>0, <1>7 DEF Fail, MatrixTypeOK, Phases, PhaseFacts, IndexTellsThisRun
<1>8. ASSUME NEW i \in Slots, OrphanExits(i)
      PROVE  MatrixTypeOK' /\ PhaseFacts' /\ IndexTellsThisRun'
  BY <1>0, <1>8 DEF OrphanExits, MatrixTypeOK, PhaseFacts, IndexTellsThisRun
<1> QED
  BY <1>1, <1>2, <1>3, <1>4, <1>5, <1>6, <1>7, <1>8 DEF MatrixNext, CaseStep

LEMMA StepInv == IInv /\ [MatrixNext]_matrixvars => IInv'
<1> SUFFICES ASSUME IInv, [MatrixNext]_matrixvars PROVE IInv'
  OBVIOUS
<1>1. CASE MatrixNext
  BY <1>1, SemaphoreStep, ResultsStep DEF IInv
<1>2. CASE UNCHANGED matrixvars
  BY <1>2 DEF matrixvars, sem, disk, IInv, MatrixTypeOK, Queue, Arrivals, AllStarted, PhaseFacts,
     PermitsConserved, Holders, NoIdlePermit, NoOvertaking, IndexTellsThisRun
<1> QED
  BY <1>1, <1>2

\* In every reachable state the queue, the permits, the phases and the
\* results on disk agree as IInv states.
THEOREM Invariance == MatrixSpec => []IInv
BY InitInv, StepInv, PTL DEF MatrixSpec

\* run_matrix runs at most --jobs cases, loses no permit on any path, leaves
\* none idle, and starts the cases in slot order.
THEOREM SemaphoreCorrect == MatrixSpec => [](MatrixTypeOK /\ PermitsConserved /\ NoIdlePermit /\ NoOvertaking)
<1>1. IInv => MatrixTypeOK /\ PermitsConserved /\ NoIdlePermit /\ NoOvertaking
  BY DEF IInv
<1> QED
  BY <1>1, Invariance, PTL

\* No result of an earlier run survives run_matrix's clean-up, and the index
\* is written only for a run all of whose cases returned and left no adapter.
THEOREM IndexCorrect == MatrixSpec => []IndexTellsThisRun
<1>1. IInv => IndexTellsThisRun
  BY DEF IInv
<1> QED
  BY <1>1, Invariance, PTL
=============================================================================
