---------------------------- MODULE ProcessProofs ----------------------------
(***************************************************************************)
(* Proofs about module Process, for every value of its constants: the      *)
(* scheduling and family invariants, that no zombie comes back, and the    *)
(* invariants of signals.                                                  *)
(*                                                                         *)
(* IInv is inductive: the type invariant and the scheduling invariants     *)
(* need each other.  That a woken process is not dead needs WaitersBlocked,*)
(* that a sleeper is in one queue only needs that the running process is   *)
(* READY, that an orphan finds init needs FamilyTree, and that a dying     *)
(* process leaves no suspended context needs ContextTaken.  The signal     *)
(* invariants are inductive relative to IInv.                              *)
(*                                                                         *)
(* Then proofs about module Tty, for every number of processes, every size *)
(* of reads and writes and every depth of the FIFOs: the FIFOs never       *)
(* overrun and no sleeper is forgotten.  Its inductive invariant, TtyInv,  *)
(* adds that the wait queues hold sleepers in calls, each once, so a       *)
(* wakeup leaves somebody on its way through the tty, and that whoever     *)
(* runs in the kernel is such a process.                                   *)
(***************************************************************************)
EXTENDS Process, Tty, TLAPS

-----------------------------------------------------------------------------
(* Wait queues as sequences without repetitions *)

Elems(s) == {s[i] : i \in DOMAIN s}
Distinct(s) == \A i, j \in DOMAIN s : s[i] = s[j] => i = j

\* What putting an element at the front does to a sequence without repetitions:
\* list_add on a wait queue in process_sleep.
LEMMA PushFacts ==
    ASSUME NEW S, NEW s \in Seq(S), NEW e \in S, Distinct(s), e \notin Elems(s)
    PROVE  /\ <<e>> \o s \in Seq(S)
           /\ Elems(<<e>> \o s) = Elems(s) \cup {e}
           /\ Distinct(<<e>> \o s)
<1> DEFINE t == <<e>> \o s
<1>1. t \in Seq(S) /\ Len(t) = Len(s) + 1
  OBVIOUS
<1>2. t[1] = e /\ \A i \in 1..Len(s) : t[i + 1] = s[i]
  OBVIOUS
<1>3. \A i \in 2..Len(t) : i - 1 \in 1..Len(s) /\ t[i] = s[i - 1]
  BY <1>1, <1>2
<1>4. DOMAIN s = 1..Len(s) /\ DOMAIN t = 1..Len(t) /\ Len(s) \in Nat
  BY <1>1
<1> HIDE DEF t
<1>5. Elems(t) = Elems(s) \cup {e}
  <2>1. ASSUME NEW x \in Elems(t) PROVE x \in Elems(s) \cup {e}
    <3>1. PICK i \in 1..Len(t) : x = t[i]
      BY <1>4, Zenon DEF Elems
    <3>2. i = 1 \/ i \in 2..Len(t)
      BY <1>1, <1>4
    <3> QED
      BY <3>1, <3>2, <1>2, <1>3, <1>4, ZenonT(60) DEF Elems
  <2>2. ASSUME NEW x \in Elems(s) PROVE x \in Elems(t)
    <3>1. PICK i \in 1..Len(s) : x = s[i]
      BY <1>4, Zenon DEF Elems
    <3>2. i + 1 \in 1..Len(t)
      BY <1>1, <1>4
    <3> QED
      BY <3>1, <3>2, <1>2, <1>4, Zenon DEF Elems
  <2>3. e \in Elems(t)
    BY <1>1, <1>2, <1>4 DEF Elems
  <2> QED
    BY <2>1, <2>2, <2>3, Zenon
<1>6. Distinct(t)
  <2> SUFFICES ASSUME NEW i \in 1..Len(t), NEW j \in 1..Len(t), t[i] = t[j] PROVE i = j
    BY <1>4, Zenon DEF Distinct
  <2>1. \A n \in 2..Len(t) : t[n] # e
    BY <1>3, <1>4, Zenon DEF Elems
  <2>2. CASE i = 1 \/ j = 1
    BY <2>1, <2>2, <1>1, <1>2, <1>4
  <2>3. CASE i \in 2..Len(t) /\ j \in 2..Len(t)
    <3>1. i - 1 = j - 1
      BY <2>3, <1>3, <1>4, Zenon DEF Distinct
    <3> QED
      BY <3>1
  <2> QED
    BY <2>2, <2>3, <1>1, <1>4
<1> QED
  BY <1>1, <1>5, <1>6, Zenon DEF t

\* What taking the front element does: list_remove of the first entry of a wait
\* queue in process_wake.
LEMMA PopFacts ==
    ASSUME NEW S, NEW s \in Seq(S), s # <<>>, Distinct(s)
    PROVE  /\ Head(s) \in S /\ Tail(s) \in Seq(S)
           /\ Head(s) \in Elems(s)
           /\ Elems(Tail(s)) = Elems(s) \ {Head(s)}
           /\ Distinct(Tail(s))
<1> DEFINE t == Tail(s)
<1>1. Len(s) \in Nat \ {0} /\ Head(s) = s[1] /\ Head(s) \in S
  OBVIOUS
<1>2. t \in Seq(S) /\ Len(t) = Len(s) - 1
  OBVIOUS
<1>3. \A i \in 1..Len(t) : i + 1 \in 1..Len(s) /\ t[i] = s[i + 1]
  BY <1>1, <1>2
<1>4. DOMAIN s = 1..Len(s) /\ DOMAIN t = 1..Len(t) /\ Len(t) \in Nat
  BY <1>1, <1>2
<1> HIDE DEF t
<1>5. Head(s) \in Elems(s)
  BY <1>1, <1>4 DEF Elems
<1>6. Elems(t) = Elems(s) \ {Head(s)}
  <2>1. ASSUME NEW x \in Elems(t) PROVE x \in Elems(s) \ {Head(s)}
    <3>1. PICK i \in 1..Len(t) : x = t[i]
      BY <1>4, Zenon DEF Elems
    <3>2. i + 1 \in 1..Len(s) /\ 1 \in 1..Len(s) /\ i + 1 # 1 /\ x = s[i + 1]
      BY <3>1, <1>1, <1>3
    <3> QED
      BY <3>2, <1>1, <1>4, Zenon DEF Elems, Distinct
  <2>2. ASSUME NEW x \in Elems(s) \ {Head(s)} PROVE x \in Elems(t)
    <3>1. PICK i \in 1..Len(s) : x = s[i]
      BY <1>4, Zenon DEF Elems
    <3>2. i - 1 \in 1..Len(t) /\ (i - 1) + 1 = i
      BY <3>1, <1>1, <1>2
    <3> QED
      BY <3>1, <3>2, <1>3, <1>4, Zenon DEF Elems
  <2> QED
    BY <2>1, <2>2, Zenon
<1>7. Distinct(t)
  <2> SUFFICES ASSUME NEW i \in 1..Len(t), NEW j \in 1..Len(t), t[i] = t[j] PROVE i = j
    BY <1>4, Zenon DEF Distinct
  <2>1. i + 1 = j + 1
    BY <1>3, <1>4, ZenonT(60) DEF Distinct
  <2> QED
    BY <2>1
<1> QED
  BY <1>1, <1>2, <1>5, <1>6, <1>7, Zenon DEF t

-----------------------------------------------------------------------------

\* A process that runs has no suspended kernel context (process_dispatch takes
\* it before system_resume).
ContextTaken ==
    cpu \in {"user", "wait", "io"} => suspend[current] = "none"

\* The scheduling invariants.
SInv ==
    /\ RunQueueReady
    /\ WaitersBlocked
    /\ FamilyTree
    /\ IdleMeansNoReady
    /\ ContextTaken

States == {"READY", "BLOCKED", "DEAD"}

\* InQueue in terms of the sequence, before and after a step.
LEMMA InQueueElems ==
    ASSUME NEW q PROVE InQueue(q) = Elems(waitq[q]) /\ InQueue(q)' = Elems(waitq'[q])
  BY Zenon DEF InQueue, Elems

\* While the kernel or a program runs, current_process is a live READY process.
LEMMA RunningFacts ==
    ASSUME TypeOK, RunQueueReady, cpu \in {"user", "dispatch", "wait", "io"}
    PROVE  current \in procs /\ current \in Pids /\ state[current] = "READY"
  BY Zenon DEF TypeOK, RunQueueReady, Ready

\* A step that leaves the wait queues and the sleepers alone keeps WaitersBlocked.
LEMMA SameWaiters ==
    ASSUME WaitersBlocked, waitq' = waitq,
           \A p \in Pids : p \in procs' /\ state'[p] = "BLOCKED"
                             <=> p \in procs /\ state[p] = "BLOCKED",
           \A q \in Queues : \A p \in InQueue(q) : suspend'[p] = suspend[p],
           \A p \in Pids : state'[p] = "DEAD" => suspend'[p] = "none"
    PROVE  WaitersBlocked'
<1>1. \A q : InQueue(q)' = InQueue(q)
  BY Zenon DEF InQueue
<1>2. \A p \in Pids : p \in procs' /\ state'[p] = "BLOCKED" <=> \E q \in Queues : p \in InQueue(q)'
  BY <1>1, Zenon DEF WaitersBlocked
<1>3. /\ \A q, r \in Queues : q # r => InQueue(q)' \cap InQueue(r)' = {}
      /\ \A q \in Queues : \A i, j \in DOMAIN waitq'[q] : waitq'[q][i] = waitq'[q][j] => i = j
  BY <1>1, ZenonT(60) DEF WaitersBlocked
<1>4. /\ \A p \in InQueue("child")' : suspend'[p] = "wait"
      /\ \A q \in IoQueues : \A p \in InQueue(q)' : suspend'[p] = "io"
  BY <1>1, Zenon DEF WaitersBlocked, Queues
<1> QED
  BY <1>2, <1>3, <1>4, Zenon DEF WaitersBlocked

\* process_sleep adds the running process to one queue and to no other.
LEMMA SleepEffect ==
    ASSUME TypeOK, WaitersBlocked, NEW q \in Queues, NEW loop \in {"wait", "io"},
           process_sleep(q, loop), current \in Pids, state[current] = "READY"
    PROVE  /\ waitq' \in [Queues -> Seq(Pids)]
           /\ InQueue(q)' = InQueue(q) \cup {current}
           /\ \A r \in Queues \ {q} : InQueue(r)' = InQueue(r)
           /\ \A r \in Queues : Distinct(waitq'[r])
<1>1. waitq \in [Queues -> Seq(Pids)] /\ \A r \in Queues : Distinct(waitq[r])
  BY Zenon DEF TypeOK, WaitersBlocked, Distinct
<1>2. current \notin Elems(waitq[q])
  BY InQueueElems DEF WaitersBlocked
<1>3. waitq' = [waitq EXCEPT ![q] = <<current>> \o waitq[q]]
  BY <1>1, Zenon DEF process_sleep
<1>4. /\ <<current>> \o waitq[q] \in Seq(Pids)
      /\ Elems(<<current>> \o waitq[q]) = Elems(waitq[q]) \cup {current}
      /\ Distinct(<<current>> \o waitq[q])
  BY <1>1, <1>2, PushFacts, Zenon
<1> QED
  BY <1>1, <1>3, <1>4, InQueueElems, Zenon

\* What process_wake does: the woken processes were asleep, each leaves its
\* queue and becomes READY, and nobody else moves.
LEMMA WakeEffect ==
    ASSUME TypeOK, WaitersBlocked, NEW one \in SUBSET Queues, NEW all \in SUBSET Queues,
           NEW s \in [Pids -> States], process_wake(one, all, s)
    PROVE  /\ woken(one, all) \subseteq Pids
           /\ \A p \in woken(one, all) : \E q \in Queues : p \in InQueue(q)
           /\ state' \in [Pids -> States]
           /\ \A p \in Pids : state'[p] = IF p \in woken(one, all) THEN "READY" ELSE s[p]
           /\ waitq' \in [Queues -> Seq(Pids)]
           /\ \A q \in Queues : InQueue(q)' = InQueue(q) \ woken(one, all)
           /\ \A q \in Queues : Distinct(waitq'[q])
<1> DEFINE W == woken(one, all)
<1>1. waitq \in [Queues -> Seq(Pids)] /\ \A q \in Queues : Distinct(waitq[q])
  BY Zenon DEF TypeOK, WaitersBlocked, Distinct
<1>2. \A q \in Queues : InQueue(q) \subseteq Pids
  BY <1>1 DEF InQueue
<1>3. \A q \in Queues : waitq[q] # <<>> =>
        /\ Head(waitq[q]) \in InQueue(q) /\ Tail(waitq[q]) \in Seq(Pids)
        /\ Elems(Tail(waitq[q])) = InQueue(q) \ {Head(waitq[q])}
        /\ Distinct(Tail(waitq[q]))
  BY <1>1, PopFacts, InQueueElems, ZenonT(60)
<1>4. \A p \in W : \E q \in Queues : p \in InQueue(q)
  BY <1>3, Zenon DEF woken
<1>5. W \subseteq Pids
  BY <1>2, <1>4, Zenon
<1>6. /\ state' = [p \in Pids |-> IF p \in W THEN "READY" ELSE s[p]]
      /\ waitq' = [q \in Queues |->
                     CASE q \in all -> <<>>
                       [] q \in one \ all /\ waitq[q] # <<>> -> Tail(waitq[q])
                       [] OTHER -> waitq[q]]
  BY Zenon DEF process_wake
<1>7. state' \in [Pids -> States] /\ \A p \in Pids : state'[p] = IF p \in W THEN "READY" ELSE s[p]
  <2> HIDE DEF W
  <2> QED
    BY <1>6, Zenon DEF States
<1>8. ASSUME NEW q \in Queues
      PROVE  waitq'[q] \in Seq(Pids) /\ InQueue(q)' = InQueue(q) \ W /\ Distinct(waitq'[q])
  <2>1. CASE q \in all
    <3>1. waitq'[q] = <<>>
      BY <1>6, <2>1, Zenon
    <3>2. InQueue(q) \subseteq W
      BY <2>1, Zenon DEF woken
    <3>3. InQueue(q)' = {}
      BY <3>1 DEF InQueue
    <3> QED
      BY <3>1, <3>2, <3>3 DEF Distinct
  <2>2. CASE q \in one \ all /\ waitq[q] # <<>>
    <3>1. waitq'[q] = Tail(waitq[q])
      BY <1>6, <2>2, Zenon
    <3>2. InQueue(q)' = InQueue(q) \ {Head(waitq[q])}
      BY <1>3, <2>2, <3>1, InQueueElems, Zenon
    <3>3. Head(waitq[q]) \in W
      BY <2>2, Zenon DEF woken
    <3>4. ASSUME NEW x \in InQueue(q), x \in W PROVE x = Head(waitq[q])
      <4>1. \A r \in Queues \ {q} : x \notin InQueue(r)
        BY <3>4, Zenon DEF WaitersBlocked
      <4>2. x \notin UNION {InQueue(r) : r \in all}
        BY <2>2, <4>1, Zenon
      <4>3. PICK r \in one : waitq[r] # <<>> /\ x = Head(waitq[r])
        BY <3>4, <4>2, Zenon DEF woken
      <4> QED
        BY <1>3, <4>1, <4>3, Zenon
    <3> QED
      BY <1>3, <2>2, <3>1, <3>2, <3>3, <3>4, Zenon
  <2>3. CASE q \notin all /\ ~(q \in one \ all /\ waitq[q] # <<>>)
    <3>1. waitq'[q] = waitq[q]
      BY <1>6, <2>3, Zenon
    <3>2. ASSUME NEW x \in InQueue(q), x \in W PROVE FALSE
      <4>1. \A r \in Queues \ {q} : x \notin InQueue(r)
        BY <3>2, Zenon DEF WaitersBlocked
      <4>2. x \notin UNION {InQueue(r) : r \in all}
        BY <2>3, <4>1, Zenon
      <4>3. PICK r \in one : waitq[r] # <<>> /\ x = Head(waitq[r])
        BY <3>2, <4>2, Zenon DEF woken
      <4> QED
        BY <1>3, <2>3, <4>1, <4>3, Zenon
    <3>3. InQueue(q)' = InQueue(q)
      BY <3>1, InQueueElems, Zenon
    <3> QED
      BY <1>1, <3>1, <3>2, <3>3, Zenon
  <2> QED
    BY <2>1, <2>2, <2>3, Zenon
<1>9. waitq' \in [Queues -> Seq(Pids)]
  <2>1. waitq' = [q \in Queues |-> waitq'[q]]
    BY <1>6, Zenon
  <2> QED
    BY <1>8, <2>1, Zenon
<1> QED
  BY <1>4, <1>5, <1>7, <1>8, <1>9, Zenon

-----------------------------------------------------------------------------

\* The inductive invariant.
IInv == TypeOK /\ SInv

\* The inductive invariant holds when kernel.c switches to init.
LEMMA InitIInv == Init => IInv
<1> SUFFICES ASSUME Init PROVE IInv
  OBVIOUS
<1> USE ConstantsAssumption
<1>1. 1 \in Pids /\ MaxPid \in Nat \ {0}
  BY DEF Pids
<1>2. TypeOK
  BY <1>1 DEF Init, TypeOK, Pids, Queues, Handlers, Init1, NULL
<1>3. \A q \in Queues : waitq[q] = <<>> /\ InQueue(q) = {}
  BY DEF Init, InQueue
<1>4. WaitersBlocked
  <2>1. \A p \in Pids : p \in procs /\ state[p] = "BLOCKED" <=> \E q \in Queues : p \in InQueue(q)
    BY <1>3, Zenon DEF Init
  <2>2. \A q \in Queues : \A i, j \in DOMAIN waitq[q] : waitq[q][i] = waitq[q][j] => i = j
    BY <1>3
  <2>3. \A p \in Pids : state[p] = "DEAD" => suspend[p] = "none"
    BY Zenon DEF Init
  <2>4. /\ \A q, r \in Queues : q # r => InQueue(q) \cap InQueue(r) = {}
        /\ \A p \in InQueue("child") : suspend[p] = "wait"
        /\ \A q \in IoQueues : \A p \in InQueue(q) : suspend[p] = "io"
    BY <1>3, Zenon DEF Queues
  <2> QED
    BY <2>1, <2>2, <2>3, <2>4, Zenon DEF WaitersBlocked
<1>5. SInv
  BY <1>1, <1>4 DEF Init, SInv, RunQueueReady, FamilyTree, IdleMeansNoReady, ContextTaken,
     Ready, Init1, NULL, Pids
<1> QED
  BY <1>2, <1>5, Zenon DEF IInv

\* A step that touches neither the family nor the scheduler keeps SInv.
LEMMA QuietStep ==
    ASSUME SInv, UNCHANGED <<family, sched>>,
           \/ cpu' = cpu
           \/ cpu' = "switch"
           \/ /\ cpu' \in {"user", "io"}
              /\ cpu \in {"user", "dispatch"}
              /\ suspend[current] = "none"
    PROVE  SInv'
<1> USE DEF family, sched
<1>2. Ready' = Ready
  BY Zenon DEF Ready
<1>3. RunQueueReady' /\ IdleMeansNoReady'
  BY <1>2, Zenon DEF SInv, RunQueueReady, IdleMeansNoReady
<1>4. WaitersBlocked'
  <2>1. \A p \in Pids : state'[p] = "DEAD" => suspend'[p] = "none"
    BY Zenon DEF SInv, WaitersBlocked
  <2>2. /\ \A p \in Pids : p \in procs' /\ state'[p] = "BLOCKED"
                           <=> p \in procs /\ state[p] = "BLOCKED"
        /\ \A q \in Queues : \A p \in InQueue(q) : suspend'[p] = suspend[p]
    OBVIOUS
  <2>3. WaitersBlocked /\ waitq' = waitq
    BY ZenonT(60) DEF SInv
  <2> QED
    BY <2>1, <2>2, <2>3, SameWaiters, ZenonT(60)
<1>5. FamilyTree'
  BY Zenon DEF SInv, FamilyTree
<1>6. ContextTaken'
  BY Zenon DEF SInv, ContextTaken
<1> QED
  BY <1>3, <1>4, <1>5, <1>6, Zenon DEF SInv

\* process_sleep, called from a loop that runs, keeps the invariant.
LEMMA SleepStep ==
    ASSUME IInv, NEW q \in Queues, NEW loop \in {"wait", "io"},
           q = "child" <=> loop = "wait", process_sleep(q, loop),
           cpu \in {"user", "wait", "io"},
           UNCHANGED <<family, exit_status, run_queue, current, signal>>
    PROVE  IInv'
<1> USE DEF family, signal
<1>1. current \in procs /\ current \in Pids /\ state[current] = "READY"
  BY RunningFacts, Zenon DEF IInv, SInv
<1>2. /\ waitq' \in [Queues -> Seq(Pids)]
      /\ InQueue(q)' = InQueue(q) \cup {current}
      /\ \A r \in Queues \ {q} : InQueue(r)' = InQueue(r)
      /\ \A r \in Queues : Distinct(waitq'[r])
  BY <1>1, SleepEffect, Zenon DEF IInv, SInv
<1>3. /\ state' = [state EXCEPT ![current] = "BLOCKED"]
      /\ suspend' = [suspend EXCEPT ![current] = loop]
      /\ cpu' = "switch"
  BY Zenon DEF process_sleep
<1>4. TypeOK'
  BY <1>1, <1>2, <1>3, Zenon DEF IInv, TypeOK
<1>5. RunQueueReady'
  BY <1>1, <1>3, Zenon DEF IInv, SInv, TypeOK, RunQueueReady, Ready
<1>6. WaitersBlocked'
  <2>1. \A r \in Queues : \A i, j \in DOMAIN waitq'[r] : waitq'[r][i] = waitq'[r][j] => i = j
    BY <1>2, ZenonT(60) DEF Distinct
  <2>2. \A r \in Queues : current \notin InQueue(r)
    BY <1>1, Zenon DEF IInv, SInv, WaitersBlocked
  <2>3. \A p \in Pids : p \in procs' /\ state'[p] = "BLOCKED" <=> \E r \in Queues : p \in InQueue(r)'
    <3> TAKE p \in Pids
    <3>1. CASE p = current
      BY <1>1, <1>2, <1>3, <3>1, Zenon DEF IInv, TypeOK
    <3>2. CASE p # current
      <4>1. \A r \in Queues : p \in InQueue(r)' <=> p \in InQueue(r)
        BY <1>2, <3>2, Zenon
      <4>2. state'[p] = state[p]
        BY <1>3, <3>2, Zenon DEF IInv, TypeOK
      <4> QED
        BY <4>1, <4>2, Zenon DEF IInv, SInv, WaitersBlocked
    <3> QED
      BY <3>1, <3>2, Zenon
  <2>4. \A r, t \in Queues : r # t => InQueue(r)' \cap InQueue(t)' = {}
    <3> TAKE r, t \in Queues
    <3>1. r # t => InQueue(r) \cap InQueue(t) = {}
      BY Zenon DEF IInv, SInv, WaitersBlocked
    <3> QED
      BY <1>2, <2>2, <3>1, Zenon
  <2>5. /\ \A p \in InQueue("child")' : suspend'[p] = "wait"
        /\ \A r \in IoQueues : \A p \in InQueue(r)' : suspend'[p] = "io"
    <3>1. \A r \in Queues : \A p \in InQueue(r) : suspend'[p] = suspend[p]
      BY <1>3, <2>2 DEF IInv, TypeOK
    <3>2. suspend'[current] = loop
      BY <1>1, <1>3, Zenon DEF IInv, TypeOK
    <3>3. "child" \in Queues /\ \A r \in IoQueues : r \in Queues /\ r # "child"
      BY ConstantsAssumption, Zenon DEF Queues
    <3>4. ASSUME NEW r \in Queues, NEW p \in InQueue(r)'
          PROVE  suspend'[p] = IF r = "child" THEN "wait" ELSE "io"
      <4>1. CASE p = current
        <5>1. r = q
          BY <1>2, <2>2, <4>1, Zenon
        <5> QED
          BY <3>2, <4>1, <5>1, Zenon
      <4>2. CASE p # current
        <5>1. p \in InQueue(r)
          BY <1>2, <4>2, Zenon
        <5>2. suspend[p] = IF r = "child" THEN "wait" ELSE "io"
          BY <5>1, Zenon DEF IInv, SInv, WaitersBlocked, Queues
        <5> QED
          BY <3>1, <5>1, <5>2, Zenon
      <4> QED
        BY <4>1, <4>2, Zenon
    <3> QED
      BY <3>3, <3>4, Zenon
  <2>6. \A p \in Pids : state'[p] = "DEAD" => suspend'[p] = "none"
    BY <1>1, <1>3, Zenon DEF IInv, SInv, TypeOK, WaitersBlocked
  <2> QED
    BY <2>1, <2>3, <2>4, <2>5, <2>6, Zenon DEF WaitersBlocked
<1>7. FamilyTree' /\ IdleMeansNoReady' /\ ContextTaken'
  BY <1>3, Zenon DEF IInv, SInv, FamilyTree, IdleMeansNoReady, ContextTaken
<1> QED
  BY <1>4, <1>5, <1>6, <1>7, Zenon DEF IInv, SInv

\* process_wake keeps WaitersBlocked, also right after process_exit marked the
\* running process DEAD.
LEMMA WakeInvariant ==
    ASSUME IInv, NEW W \in SUBSET Pids, NEW s \in [Pids -> States],
           \/ s = state
           \/ /\ s = [state EXCEPT ![current] = "DEAD"]
              /\ suspend[current] = "none"
              /\ \A q \in Queues : current \notin InQueue(q),
           \A p \in W : \E q \in Queues : p \in InQueue(q),
           \A p \in Pids : state'[p] = IF p \in W THEN "READY" ELSE s[p],
           \A q \in Queues : InQueue(q)' = InQueue(q) \ W,
           \A q \in Queues : Distinct(waitq'[q]),
           procs' = procs, suspend' = suspend
    PROVE  WaitersBlocked'
<1>1. \A q \in Queues : \A i, j \in DOMAIN waitq'[q] : waitq'[q][i] = waitq'[q][j] => i = j
  BY Zenon DEF Distinct
<1>2. \A x \in Pids \ {current} : s[x] = state[x]
  BY Zenon DEF IInv, TypeOK
<1>3. current \in Pids /\ s # state => s[current] = "DEAD"
  BY Zenon DEF IInv, TypeOK
<1>4. \A x \in Pids : x \in procs /\ s[x] = "BLOCKED" <=> \E q \in Queues : x \in InQueue(q)
  BY <1>2, <1>3 DEF IInv, SInv, WaitersBlocked
<1>5. \A x \in Pids : x \in procs' /\ state'[x] = "BLOCKED" <=> \E q \in Queues : x \in InQueue(q)'
  <2> TAKE x \in Pids
  <2>1. CASE x \in W
    BY <2>1, Zenon
  <2>2. CASE x \notin W
    <3>1. \A q \in Queues : x \in InQueue(q)' <=> x \in InQueue(q)
      BY <2>2, Zenon
    <3> QED
      BY <1>4, <2>2, <3>1, Zenon
  <2> QED
    BY <2>1, <2>2, Zenon
<1>6. \A q \in Queues : InQueue(q)' \subseteq InQueue(q)
  OBVIOUS
<1>7. \A q, r \in Queues : q # r => InQueue(q)' \cap InQueue(r)' = {}
  <2> TAKE q, r \in Queues
  <2>1. q # r => InQueue(q) \cap InQueue(r) = {}
    BY Zenon DEF IInv, SInv, WaitersBlocked
  <2> QED
    BY <1>6, <2>1, Zenon
<1>8. \A x \in Pids : state'[x] = "DEAD" => suspend'[x] = "none"
  BY <1>2, <1>3, Zenon DEF IInv, SInv, WaitersBlocked
<1>9. /\ \A x \in InQueue("child")' : suspend'[x] = "wait"
      /\ \A q \in IoQueues : \A x \in InQueue(q)' : suspend'[x] = "io"
  BY <1>6, ZenonT(60) DEF IInv, SInv, WaitersBlocked, Queues
<1> QED
  BY <1>1, <1>5, <1>7, <1>8, <1>9, Zenon DEF WaitersBlocked

\* process_wake of I/O queues keeps the scheduling invariants.
LEMMA WakeStep ==
    ASSUME IInv, NEW one \in SUBSET IoQueues, NEW all \in SUBSET IoQueues,
           process_wake(one, all, state),
           cpu' = "switch" \/ (cpu = "io" /\ cpu' = "io"),
           UNCHANGED <<family, suspend, run_queue, current>>
    PROVE  SInv' /\ state' \in [Pids -> States] /\ waitq' \in [Queues -> Seq(Pids)]
<1> DEFINE W == woken(one, all)
<1> USE DEF family
<1>1. one \in SUBSET Queues /\ all \in SUBSET Queues /\ state \in [Pids -> States]
  BY Zenon DEF Queues, IInv, TypeOK, States
<1>2. /\ W \in SUBSET Pids
      /\ \A p \in W : \E q \in Queues : p \in InQueue(q)
      /\ state' \in [Pids -> States]
      /\ \A p \in Pids : state'[p] = IF p \in W THEN "READY" ELSE state[p]
      /\ waitq' \in [Queues -> Seq(Pids)]
      /\ \A q \in Queues : InQueue(q)' = InQueue(q) \ W
      /\ \A q \in Queues : Distinct(waitq'[q])
  BY <1>1, WakeEffect, ZenonT(60) DEF IInv, SInv
<1> HIDE DEF W
<1>3. RunQueueReady'
  BY <1>2, Zenon DEF IInv, SInv, TypeOK, RunQueueReady, Ready
<1>4. WaitersBlocked'
  BY <1>1, <1>2, WakeInvariant, Zenon
<1>5. FamilyTree' /\ IdleMeansNoReady' /\ ContextTaken'
  BY Zenon DEF IInv, SInv, FamilyTree, IdleMeansNoReady, ContextTaken
<1> QED
  BY <1>2, <1>3, <1>4, <1>5, Zenon DEF SInv

\* process_exit keeps the invariant: the dying process is in no queue, and
\* those it wakes were.
LEMMA ExitStep ==
    ASSUME IInv, NEW status \in Nat, process_exit(status),
           cpu \in {"user", "dispatch"}, suspend[current] = "none"
    PROVE  IInv'
<1> DEFINE dead == [state EXCEPT ![current] = "DEAD"]
<1> USE DEF family, signal
<1>1. current \in procs /\ current \in Pids /\ state[current] = "READY"
  BY RunningFacts, Zenon DEF IInv, SInv
<1>2. dead \in [Pids -> States]
  BY Zenon DEF IInv, TypeOK, States
<1>3. PICK one \in SUBSET Queues, released \in SUBSET Queues : process_wake(one, released, dead)
  <2>1. PICK released \in SUBSET IoQueues : process_wake({"child"}, released, dead)
    BY Zenon DEF process_exit
  <2>2. {"child"} \in SUBSET Queues /\ released \in SUBSET Queues
    BY Zenon DEF Queues
  <2> QED
    BY <2>1, <2>2, Zenon
<1>4. /\ exit_status' = [exit_status EXCEPT ![current] = status]
      /\ cpu' \in {"off", "switch"}
      /\ UNCHANGED <<family, suspend, run_queue, current, signal>>
  BY Zenon DEF process_exit
<1> DEFINE W == woken(one, released)
<1>6. /\ W \in SUBSET Pids
      /\ \A p \in W : \E q \in Queues : p \in InQueue(q)
      /\ state' \in [Pids -> States]
      /\ \A p \in Pids : state'[p] = IF p \in W THEN "READY" ELSE dead[p]
      /\ waitq' \in [Queues -> Seq(Pids)]
      /\ \A q \in Queues : InQueue(q)' = InQueue(q) \ W
      /\ \A q \in Queues : Distinct(waitq'[q])
  <2> HIDE DEF dead
  <2>1. TypeOK /\ WaitersBlocked
    BY Zenon DEF IInv, SInv
  <2> HIDE DEF W
  <2>2. W \subseteq Pids /\ \A p \in W : \E q \in Queues : p \in InQueue(q)
    BY <1>2, <1>3, <2>1, WakeEffect, Zenon DEF W
  <2>3. /\ state' \in [Pids -> States]
        /\ \A p \in Pids : state'[p] = IF p \in W THEN "READY" ELSE dead[p]
    BY <1>2, <1>3, Zenon DEF W, process_wake, States
  <2>4. waitq' \in [Queues -> Seq(Pids)]
    BY <1>2, <1>3, <2>1, WakeEffect, Zenon DEF W
  <2>5. /\ \A q \in Queues : InQueue(q)' = InQueue(q) \ W
        /\ \A q \in Queues : Distinct(waitq'[q])
    BY <1>2, <1>3, <2>1, WakeEffect, Zenon DEF W
  <2> QED
    BY <2>2, <2>3, <2>4, <2>5, Zenon
<1>7. \A q \in Queues : current \notin InQueue(q)
  BY <1>1, Zenon DEF IInv, SInv, WaitersBlocked
<1>8. \A x \in Pids \ {current} : dead[x] = state[x]
  BY Zenon DEF IInv, TypeOK
<1> HIDE DEF W
<1>9. TypeOK'
  BY <1>4, <1>6, Zenon DEF IInv, TypeOK, States
<1>10. RunQueueReady'
  BY <1>4, <1>6, <1>8, Zenon DEF IInv, SInv, TypeOK, RunQueueReady, Ready
<1>11. WaitersBlocked'
  BY <1>2, <1>4, <1>6, <1>7, WakeInvariant, Zenon
<1>12. FamilyTree' /\ IdleMeansNoReady' /\ ContextTaken'
  BY <1>4, Zenon DEF IInv, SInv, FamilyTree, IdleMeansNoReady, ContextTaken
<1> QED
  BY <1>9, <1>10, <1>11, <1>12, Zenon DEF IInv, SInv

\* find_toplevel_process always finds init: no other process is its own parent.
LEMMA ToplevelIsInit ==
    ASSUME IInv, NEW c \in procs \ {Init1} PROVE toplevel(c) = Init1
<1>1. Init1 \in procs \ {c} /\ parent[Init1] = Init1
  BY Zenon DEF IInv, SInv, FamilyTree
<1>2. \A q \in procs \ {c} : parent[q] = q => q = Init1
  BY DEF IInv, SInv, FamilyTree, TypeOK, Pids
<1> QED
  BY <1>1, <1>2, Zenon DEF toplevel

\* process_destroy of a dead child keeps the invariant, orphans included.
LEMMA DestroyStep ==
    ASSUME IInv, NEW c \in children[current], state[c] = "DEAD", process_destroy(c),
           cpu \in {"user", "wait"}, cpu' = "switch",
           UNCHANGED <<state, exit_status, suspend, waitq, current, signal>>
    PROVE  IInv'
<1> USE DEF signal
<1>1. current \in procs /\ current \in Pids /\ state[current] = "READY"
  BY RunningFacts, Zenon DEF IInv, SInv
<1>2. c \in Pids /\ c \in procs \ {Init1} /\ parent[c] = current
  BY <1>1, Zenon DEF IInv, SInv, TypeOK, FamilyTree
<1>3. toplevel(c) = Init1 /\ Init1 = 1 /\ NULL = 0 /\ Init1 \in Pids
  BY <1>2, ToplevelIsInit, ConstantsAssumption DEF Init1, NULL, Pids
<1>4. /\ procs' = procs \ {c} /\ run_queue' = run_queue \ {c} /\ max_id' = max_id
      /\ parent' = [q \in Pids |-> IF q = c THEN NULL
                                   ELSE IF q \in children[c] THEN Init1 ELSE parent[q]]
      /\ children' = [q \in Pids |-> IF q = c THEN {}
                                     ELSE IF q = Init1 THEN (children[q] \ {c}) \cup children[c]
                                     ELSE children[q] \ {c}]
  BY <1>3, SMTT(60) DEF process_destroy, new_parent
<1>5. TypeOK'
  <2>1. \A q \in Pids : children[q] \subseteq Pids /\ parent[q] \in Pids \cup {NULL}
    BY ZenonT(60) DEF IInv, TypeOK
  <2>2. parent' \in [Pids -> Pids \cup {NULL}]
    BY <1>3, <1>4, <2>1, ZenonT(60)
  <2>3. children' \in [Pids -> SUBSET Pids]
    BY <1>2, <1>4, <2>1, ZenonT(60)
  <2> QED
    BY <1>4, <2>2, <2>3, Zenon DEF IInv, TypeOK
<1>6. RunQueueReady'
  BY <1>4, ZenonT(60) DEF IInv, SInv, RunQueueReady, Ready
<1>7. WaitersBlocked'
  <2>1. WaitersBlocked /\ state[c] = "DEAD" /\ procs' = procs \ {c}
    BY <1>4, ZenonT(60) DEF IInv, SInv
  <2>2. \A p \in Pids : state'[p] = "DEAD" => suspend'[p] = "none"
    BY <2>1, ZenonT(60) DEF WaitersBlocked
  <2>3. \A p \in Pids : p \in procs' /\ state'[p] = "BLOCKED" <=> p \in procs /\ state[p] = "BLOCKED"
    BY <2>1, Zenon
  <2>4. \A q \in Queues : \A p \in InQueue(q) : suspend'[p] = suspend[p]
    OBVIOUS
  <2> QED
    BY <2>1, <2>2, <2>3, <2>4, SameWaiters, ZenonT(60)
<1>8. FamilyTree'
  <2>1. \A p \in procs' \ {Init1} : parent'[p] \in procs' /\ parent'[p] < p
    BY <1>2, <1>3, <1>4, SMTT(60) DEF IInv, SInv, TypeOK, FamilyTree, Pids
  <2>2. \A p, x \in Pids : x \in children'[p] <=> x \in procs' \ {Init1} /\ parent'[x] = p
    BY <1>2, <1>3, <1>4 DEF IInv, SInv, TypeOK, FamilyTree, Pids
  <2>3. Init1 \in procs' /\ parent'[Init1] = Init1 /\ \A p \in procs' : p < max_id'
    BY <1>2, <1>3, <1>4, Zenon DEF IInv, SInv, TypeOK, FamilyTree
  <2> QED
    BY <2>1, <2>2, <2>3, ZenonT(60) DEF FamilyTree
<1>9. IdleMeansNoReady' /\ ContextTaken'
  BY Zenon DEF IdleMeansNoReady, ContextTaken
<1> QED
  BY <1>5, <1>6, <1>7, <1>8, <1>9, Zenon DEF IInv, SInv

\* process_switch keeps the invariant.
LEMMA SwitchStep == ASSUME IInv, process_switch PROVE IInv'
<1> USE DEF family, signal
<1> DEFINE queue == IF run_queue = {} THEN process_schedule ELSE run_queue
<1>1. /\ cpu = "switch"
      /\ \/ /\ queue = {} /\ current' = NULL /\ cpu' = "idle" /\ run_queue' = run_queue
         \/ \E p \in queue : current' = p /\ run_queue' = queue \ {p} /\ cpu' = "dispatch"
      /\ UNCHANGED <<family, state, exit_status, suspend, waitq, signal>>
  BY Zenon DEF process_switch, process_dequeue
<1>2. queue \subseteq Ready /\ (queue = {} => Ready = {} /\ run_queue = {})
  BY Zenon DEF IInv, SInv, RunQueueReady, process_schedule
<1>3. Ready' = Ready /\ Ready \subseteq Pids
  BY <1>1, Zenon DEF Ready, IInv, TypeOK
<1> HIDE DEF queue
<1>4. TypeOK'
  BY <1>1, <1>2, <1>3, ZenonT(60) DEF IInv, TypeOK
<1>5. RunQueueReady' /\ IdleMeansNoReady' /\ ContextTaken'
  BY <1>1, <1>2, <1>3, Zenon DEF RunQueueReady, IdleMeansNoReady, ContextTaken
<1>6. WaitersBlocked'
  <2>1. \A p \in Pids : state'[p] = "DEAD" => suspend'[p] = "none"
    BY <1>1, Zenon DEF IInv, SInv, WaitersBlocked
  <2>2. /\ \A p \in Pids : p \in procs' /\ state'[p] = "BLOCKED"
                           <=> p \in procs /\ state[p] = "BLOCKED"
        /\ \A q \in Queues : \A p \in InQueue(q) : suspend'[p] = suspend[p]
    BY <1>1, Zenon
  <2>3. WaitersBlocked /\ waitq' = waitq
    BY <1>1, Zenon DEF IInv, SInv
  <2> QED
    BY <2>1, <2>2, <2>3, SameWaiters, ZenonT(60)
<1>7. FamilyTree'
  BY <1>1, Zenon DEF IInv, SInv, FamilyTree
<1> QED
  BY <1>4, <1>5, <1>6, <1>7, Zenon DEF IInv, SInv

\* process_dispatch back into a suspended loop keeps the invariant.
LEMMA ResumeStep == ASSUME IInv, dispatch_resume PROVE IInv'
<1> USE DEF family, signal
<1>1. current \in procs /\ current \in Pids /\ state[current] = "READY"
  BY RunningFacts, Zenon DEF IInv, SInv, dispatch_resume
<1>2. /\ cpu' \in {"wait", "io"}
      /\ suspend' = [suspend EXCEPT ![current] = "none"]
      /\ UNCHANGED <<family, state, exit_status, waitq, run_queue, current, signal>>
  BY <1>1, Zenon DEF IInv, TypeOK, dispatch_resume
<1>3. Ready' = Ready
  BY <1>2, Zenon DEF Ready
<1>4. TypeOK'
  BY <1>1, <1>2, Zenon DEF IInv, TypeOK
<1>5. RunQueueReady' /\ IdleMeansNoReady' /\ ContextTaken'
  BY <1>1, <1>2, <1>3, Zenon DEF IInv, SInv, TypeOK, RunQueueReady, IdleMeansNoReady, ContextTaken, Ready
<1>6. WaitersBlocked'
  <2>1. \A q \in Queues : current \notin InQueue(q)
    BY <1>1, Zenon DEF IInv, SInv, WaitersBlocked
  <2>2. \A q \in Queues : \A p \in InQueue(q) : suspend'[p] = suspend[p]
    BY <1>1, <1>2, <2>1, SMTT(60) DEF IInv, TypeOK
  <2>3. \A p \in Pids : state'[p] = "DEAD" => suspend'[p] = "none"
    BY <1>1, <1>2, Zenon DEF IInv, SInv, TypeOK, WaitersBlocked
  <2>4. \A p \in Pids : p \in procs' /\ state'[p] = "BLOCKED" <=> p \in procs /\ state[p] = "BLOCKED"
    BY <1>2, Zenon
  <2>5. WaitersBlocked /\ waitq' = waitq
    BY <1>2, ZenonT(60) DEF IInv, SInv
  <2> QED
    BY <2>2, <2>3, <2>4, <2>5, SameWaiters, ZenonT(60)
<1>7. FamilyTree'
  BY <1>2, Zenon DEF IInv, SInv, FamilyTree
<1> QED
  BY <1>4, <1>5, <1>6, <1>7, Zenon DEF IInv, SInv

\* process_fork keeps the invariant: max_id names no live process.
LEMMA ForkStep == ASSUME IInv, syscall_fork PROVE IInv'
<1>1. current \in procs /\ current \in Pids /\ state[current] = "READY"
  BY RunningFacts, ZenonT(60) DEF IInv, SInv, syscall_fork
<1>2. max_id \in Pids /\ max_id \notin procs /\ current < max_id /\ max_id # Init1
  BY <1>1, ConstantsAssumption DEF IInv, SInv, TypeOK, FamilyTree, Pids, Init1, syscall_fork
<1>3. TypeOK'
  <2>1. max_id' \in 2..(MaxPid + 1)
    BY ConstantsAssumption DEF IInv, TypeOK, syscall_fork
  <2>2. parent' \in [Pids -> Pids \cup {NULL}] /\ children' \in [Pids -> SUBSET Pids]
    BY <1>1, <1>2, Zenon DEF IInv, TypeOK, syscall_fork
  <2>3. /\ mask' \in [Pids -> SUBSET Signals]
        /\ pending' \in [Pids -> SUBSET Signals]
        /\ frames' \in [Pids -> Seq(SUBSET Signals)]
    BY <1>1, <1>2, ZenonT(60) DEF IInv, TypeOK, syscall_fork
  <2>4. actions' \in [Pids -> [Signals -> [handler : Handlers, mask : SUBSET Signals]]]
    BY <1>1, <1>2, Zenon DEF IInv, TypeOK, syscall_fork
  <2> QED
    BY <1>2, <2>1, <2>2, <2>3, <2>4, ZenonT(60) DEF IInv, TypeOK, syscall_fork
<1>4. RunQueueReady'
  BY <1>2, ZenonT(60) DEF IInv, SInv, TypeOK, RunQueueReady, Ready, syscall_fork
<1>5. WaitersBlocked'
  <2>3. \A p \in Pids : p \in procs' /\ state'[p] = "BLOCKED" <=> p \in procs /\ state[p] = "BLOCKED"
    BY <1>2, Zenon DEF IInv, TypeOK, syscall_fork
  <2>4. \A p \in Pids : state'[p] = "DEAD" => state[p] = "DEAD"
    BY <1>2, Zenon DEF IInv, TypeOK, syscall_fork
  <2>5. UNCHANGED <<waitq, suspend>>
    BY Zenon DEF syscall_fork
  <2>6. \A p \in Pids : state'[p] = "DEAD" => suspend'[p] = "none"
    BY <2>4, <2>5, Zenon DEF IInv, SInv, WaitersBlocked
  <2> QED
    BY <2>3, <2>4, <2>5, <2>6, SameWaiters, ZenonT(60) DEF IInv, SInv
<1>6. FamilyTree'
  <2>1. \A p \in procs' \ {Init1} : parent'[p] \in procs' /\ parent'[p] < p
    BY <1>1, <1>2, SMTT(60) DEF IInv, SInv, TypeOK, FamilyTree, syscall_fork
  <2>2. \A p, x \in Pids : x \in children'[p] <=> x \in procs' \ {Init1} /\ parent'[x] = p
    BY <1>1, <1>2, SMTT(60) DEF IInv, SInv, TypeOK, FamilyTree, syscall_fork
  <2>3. Init1 \in procs' /\ parent'[Init1] = Init1 /\ \A p \in procs' : p < max_id'
    BY <1>1, <1>2 DEF IInv, SInv, TypeOK, FamilyTree, syscall_fork, Pids, Init1
  <2> QED
    BY <2>1, <2>2, <2>3, ZenonT(60) DEF FamilyTree
<1>7. IdleMeansNoReady' /\ ContextTaken'
  BY Zenon DEF IdleMeansNoReady, ContextTaken, syscall_fork
<1> QED
  BY <1>3, <1>4, <1>5, <1>6, <1>7, Zenon DEF IInv, SInv

-----------------------------------------------------------------------------

\* A step on the signal state alone keeps TypeOK when that state keeps its type.
LEMMA SignalTypes ==
    ASSUME TypeOK, current \in Pids, UNCHANGED <<family, sched>>,
           cpu' \in {"user", "switch", "io"},
           mask' \in [Pids -> SUBSET Signals], pending' \in [Pids -> SUBSET Signals],
           actions' \in [Pids -> [Signals -> [handler : Handlers, mask : SUBSET Signals]]],
           frames' \in [Pids -> Seq(SUBSET Signals)]
    PROVE  TypeOK'
  BY Zenon DEF TypeOK, family, sched

\* A step on the signal state that also wakes sleepers keeps TypeOK.
LEMMA WakeTypes ==
    ASSUME TypeOK, UNCHANGED <<family, exit_status, suspend, run_queue, current>>,
           state' \in [Pids -> States], waitq' \in [Queues -> Seq(Pids)],
           cpu' \in {"switch", "io"},
           mask' \in [Pids -> SUBSET Signals], pending' \in [Pids -> SUBSET Signals],
           actions' \in [Pids -> [Signals -> [handler : Handlers, mask : SUBSET Signals]]],
           frames' \in [Pids -> Seq(SUBSET Signals)]
    PROVE  TypeOK'
  BY Zenon DEF TypeOK, family, States

\* The loop over actions in process_exec keeps their type.
LEMMA ExecveTypes ==
    ASSUME TypeOK, syscall_execve, current \in Pids
    PROVE  actions' \in [Pids -> [Signals -> [handler : Handlers, mask : SUBSET Signals]]]
<1> DEFINE a == actions[current]
           b == [s \in Signals |-> IF a[s].handler = "HANDLER"
                                   THEN [a[s] EXCEPT !.handler = "DFL"] ELSE a[s]]
<1>1. a \in [Signals -> [handler : Handlers, mask : SUBSET Signals]]
  BY Zenon DEF TypeOK
<1>2. actions' = [actions EXCEPT ![current] = b]
  BY Zenon DEF TypeOK, syscall_execve
<1> HIDE DEF a
<1>3. b \in [Signals -> [handler : Handlers, mask : SUBSET Signals]]
  BY <1>1 DEF Handlers
<1> HIDE DEF b
<1> QED
  BY <1>2, <1>3, Zenon DEF TypeOK

-----------------------------------------------------------------------------
(* The invariant holds *)

\* Every step of the process core keeps the inductive invariant.
LEMMA NextIInv == IInv /\ [Next]_vars => IInv'
<1> SUFFICES ASSUME IInv, [Next]_vars PROVE IInv'
  OBVIOUS
<1> USE ConstantsAssumption
<1>0. TypeOK /\ SInv /\ RunQueueReady /\ ContextTaken
  BY Zenon DEF IInv, SInv
<1>1. ASSUME cpu \in {"user", "dispatch", "wait", "io"}
      PROVE  current \in procs /\ current \in Pids /\ state[current] = "READY"
  BY <1>0, <1>1, RunningFacts, Zenon
<1>2. ASSUME cpu = "user" PROVE suspend[current] = "none"
  BY <1>0, <1>2, Zenon DEF ContextTaken
<1>3. CASE UNCHANGED vars
  BY <1>0, <1>3, QuietStep, Zenon DEF IInv, TypeOK, vars, family, sched, signal
<1>4. CASE process_switch
  BY <1>4, SwitchStep, Zenon
<1>5. CASE dispatch_resume
  BY <1>5, ResumeStep, Zenon
<1>6. CASE dispatch_user
  <2>1. TypeOK'
    BY <1>0, <1>6, Zenon DEF dispatch_user, TypeOK, family, sched, signal
  <2> QED
    BY <1>0, <1>6, <2>1, QuietStep, Zenon DEF dispatch_user, IInv
<1>7. ASSUME NEW sig \in Signals, dispatch_ignore(sig) PROVE IInv'
  <2>1. TypeOK'
    BY <1>0, <1>7, Zenon DEF dispatch_ignore, TypeOK, family, sched
  <2> QED
    BY <1>0, <1>7, <2>1, QuietStep, Zenon DEF dispatch_ignore, chosen_signal, IInv
<1>8. ASSUME NEW sig \in Signals, dispatch_fatal(sig) PROVE IInv'
  <2>1. WAIT_SIGNAL(sig) \in Nat
    BY DEF WAIT_SIGNAL, NSIG
  <2> QED
    BY <1>8, <2>1, ExitStep, Zenon DEF dispatch_fatal, chosen_signal
<1>9. ASSUME NEW sig \in Signals, dispatch_handler(sig) PROVE IInv'
  <2>1. current \in Pids
    BY <1>1, <1>9, Zenon DEF dispatch_handler, chosen_signal
  <2>2. frames' \in [Pids -> Seq(SUBSET Signals)]
    <3>1. <<mask[current]>> \o frames[current] \in Seq(SUBSET Signals)
      BY <1>0, <2>1 DEF TypeOK
    <3> QED
      BY <1>0, <1>9, <3>1, Zenon DEF dispatch_handler, TypeOK
  <2>3. mask' \in [Pids -> SUBSET Signals]
    <3>1. mask[current] \cup actions[current][sig].mask \cup {sig} \subseteq Signals
      BY <1>0, <2>1 DEF TypeOK
    <3> QED
      BY <1>0, <1>9, <3>1, Zenon DEF dispatch_handler, TypeOK
  <2>4. TypeOK'
    BY <1>0, <1>9, <2>1, <2>2, <2>3, SignalTypes, ZenonT(60) DEF dispatch_handler, TypeOK
  <2> QED
    BY <1>0, <1>9, <2>4, QuietStep, Zenon DEF dispatch_handler, chosen_signal, IInv
<1>10. ASSUME cpu \in {"user", "wait"}, wait_loop PROVE IInv'
  <2>1. CASE \E c \in children[current] : state[c] = "DEAD" /\ process_destroy(c)
             /\ cpu' = "switch" /\ UNCHANGED <<state, exit_status, suspend, waitq, current, signal>>
    BY <1>10, <2>1, DestroyStep, Zenon
  <2>2. CASE /\ process_sleep("child", "wait")
             /\ UNCHANGED <<family, exit_status, run_queue, current, signal>>
    BY <1>10, <2>2, SleepStep, Zenon DEF Queues
  <2> QED
    BY <1>10, <2>1, <2>2, Zenon DEF wait_loop
<1>11. CASE process_wait
  BY <1>10, <1>11, Zenon DEF process_wait
<1>12. CASE syscall_wait4
  <2>1. CASE UNCHANGED <<family, sched, signal>> /\ cpu' = "switch"
    BY <1>0, <2>1, QuietStep, Zenon DEF IInv, TypeOK, family, sched, signal
  <2> QED
    BY <1>10, <1>12, <2>1, Zenon DEF syscall_wait4
<1>13. CASE io_sleep \/ io_wake \/ io_return
  <2>1. CASE io_sleep
    <3>1. PICK q \in IoQueues : process_sleep(q, "io")
      BY <2>1, Zenon DEF io_sleep
    <3>2. q \in Queues /\ q # "child"
      BY Zenon DEF Queues
    <3> QED
      BY <2>1, <3>1, <3>2, SleepStep, Zenon DEF io_sleep
  <2>2. CASE io_wake
    <3>1. PICK one \in SUBSET IoQueues : process_wake(one, {}, state)
      BY <2>2, Zenon DEF io_wake
    <3>2. SInv' /\ state' \in [Pids -> States] /\ waitq' \in [Queues -> Seq(Pids)]
      BY <2>2, <3>1, WakeStep, Zenon DEF io_wake
    <3>3. TypeOK'
      BY <1>0, <2>2, <3>2, WakeTypes, Zenon DEF io_wake, signal, TypeOK
    <3> QED
      BY <3>2, <3>3, Zenon DEF IInv
  <2>3. CASE io_return
    <3>1. current \in Pids
      BY <1>1, <2>3, Zenon DEF io_return
    <3>2. pending' \in [Pids -> SUBSET Signals] /\ UNCHANGED <<mask, actions, frames>>
      <4>1. CASE UNCHANGED signal
        BY <1>0, <4>1, Zenon DEF signal, TypeOK
      <4>2. CASE SIGPIPE \in Signals /\ process_kill(current, SIGPIPE)
        BY <1>0, <3>1, <4>2, ZenonT(60) DEF process_kill, TypeOK
      <4> QED
        BY <2>3, <4>1, <4>2, Zenon DEF io_return
    <3>3. TypeOK'
      BY <1>0, <2>3, <3>1, <3>2, SignalTypes, ZenonT(60) DEF io_return, TypeOK
    <3> QED
      BY <1>0, <2>3, <3>3, QuietStep, Zenon DEF io_return, IInv
  <2> QED
    BY <1>13, <2>1, <2>2, <2>3, Zenon
<1>14. ASSUME NEW code \in ExitCodes, syscall_exit(code) PROVE IInv'
  <2>1. WAIT_EXIT_CODE(code) \in Nat
    BY DEF WAIT_EXIT_CODE
  <2> QED
    BY <1>2, <1>14, <2>1, ExitStep, Zenon DEF syscall_exit
<1>15. CASE syscall_fork
  BY <1>15, ForkStep, Zenon
<1>16. CASE syscall_execve
  <2>1. current \in Pids
    BY <1>1, <1>16, Zenon DEF syscall_execve
  <2>2. frames' \in [Pids -> Seq(SUBSET Signals)]
    BY <1>0, <1>16, <2>1 DEF syscall_execve, TypeOK
  <2>3. PICK released \in SUBSET IoQueues : process_wake({}, released, state)
    BY <1>16, Zenon DEF syscall_execve
  <2>4. SInv' /\ state' \in [Pids -> States] /\ waitq' \in [Queues -> Seq(Pids)]
    BY <1>16, <2>3, WakeStep, Zenon DEF syscall_execve
  <2>5. TypeOK'
    BY <1>0, <1>16, <2>1, <2>2, <2>4, ExecveTypes, WakeTypes, Zenon DEF syscall_execve, TypeOK
  <2> QED
    BY <2>4, <2>5, Zenon DEF IInv
<1>17. CASE syscall_sigreturn
  <2>1. current \in Pids
    BY <1>1, <1>17, Zenon DEF syscall_sigreturn
  <2>2. frames[current] \in Seq(SUBSET Signals) /\ frames[current] # <<>>
    BY <1>0, <1>17, <2>1, Zenon DEF syscall_sigreturn, TypeOK
  <2>3. Head(frames[current]) \in SUBSET Signals /\ Tail(frames[current]) \in Seq(SUBSET Signals)
    BY <2>2
  <2>4. TypeOK'
    BY <1>0, <1>17, <2>1, <2>3, SignalTypes, Zenon DEF syscall_sigreturn, TypeOK
  <2> QED
    BY <1>0, <1>17, <2>4, QuietStep, Zenon DEF syscall_sigreturn, IInv
<1>18. CASE syscall_io
  <2>1. TypeOK'
    BY <1>0, <1>18, Zenon DEF syscall_io, TypeOK, family, sched, signal
  <2> QED
    BY <1>0, <1>2, <1>18, <2>1, QuietStep, Zenon DEF syscall_io, IInv
<1>19. ASSUME NEW p \in Pids, NEW sig \in Signals, syscall_kill(p, sig) PROVE IInv'
  <2>1. TypeOK'
    BY <1>0, <1>19, ZenonT(60) DEF syscall_kill, process_kill, TypeOK, family, sched
  <2> QED
    BY <1>0, <1>19, <2>1, QuietStep, Zenon DEF syscall_kill, IInv
<1>20. ASSUME NEW sig \in Signals, NEW handler \in Handlers, NEW set \in MaskArgs,
              syscall_rt_sigaction(sig, handler, set) PROVE IInv'
  <2>1. [handler |-> handler, mask |-> sanitized(set)] \in [handler : Handlers, mask : SUBSET Signals]
    BY Zenon DEF sanitized
  <2>2. actions' \in [Pids -> [Signals -> [handler : Handlers, mask : SUBSET Signals]]]
    BY <1>0, <1>20, <2>1, Zenon DEF syscall_rt_sigaction, TypeOK
  <2>3. current \in Pids
    BY <1>1, <1>20, ZenonT(60) DEF syscall_rt_sigaction
  <2>4. TypeOK'
    BY <1>0, <1>20, <2>2, <2>3, SignalTypes, ZenonT(60) DEF syscall_rt_sigaction, TypeOK
  <2> QED
    BY <1>0, <1>20, <2>4, QuietStep, Zenon DEF syscall_rt_sigaction, IInv
<1>21. ASSUME NEW how \in {"SIG_BLOCK", "SIG_UNBLOCK", "SIG_SETMASK"}, NEW set \in MaskArgs,
              syscall_rt_sigprocmask(how, set) PROVE IInv'
  <2>1. current \in Pids
    BY <1>1, <1>21, Zenon DEF syscall_rt_sigprocmask
  <2>2. new_mask(how, mask[current], set) \in SUBSET Signals
    BY <1>0, <2>1, Zenon DEF new_mask, TypeOK
  <2>3. TypeOK'
    BY <1>0, <1>21, <2>1, <2>2, SignalTypes, ZenonT(60) DEF syscall_rt_sigprocmask, TypeOK
  <2> QED
    BY <1>0, <1>21, <2>3, QuietStep, Zenon DEF syscall_rt_sigprocmask, IInv
<1>22. CASE timer_irq
  BY <1>0, <1>22, QuietStep, Zenon DEF timer_irq, IInv, TypeOK, family, sched, signal
<1>23. CASE uart_irq \/ syscall_close
  <2>1. PICK one \in SUBSET IoQueues, all \in SUBSET IoQueues : process_wake(one, all, state)
    BY <1>23, Zenon DEF uart_irq, syscall_close
  <2>2. cpu' = "switch" /\ UNCHANGED <<family, exit_status, suspend, run_queue, current, signal>>
    BY <1>23, Zenon DEF uart_irq, syscall_close
  <2>3. SInv' /\ state' \in [Pids -> States] /\ waitq' \in [Queues -> Seq(Pids)]
    BY <2>1, <2>2, WakeStep, Zenon
  <2>4. TypeOK'
    BY <1>0, <2>2, <2>3, WakeTypes, ZenonT(60) DEF signal, TypeOK
  <2> QED
    BY <2>3, <2>4, Zenon DEF IInv
<1>24. CASE system_data_abort_handler
  <2>1. current \in Pids
    BY <1>1, <1>24, Zenon DEF system_data_abort_handler
  <2>2. pending' \in [Pids -> SUBSET Signals] /\ UNCHANGED <<mask, actions, frames>>
    <3>1. CASE UNCHANGED signal
      BY <1>0, <3>1, Zenon DEF signal, TypeOK
    <3>2. CASE SIGSEGV \in Signals /\ process_kill(current, SIGSEGV)
      BY <1>0, <2>1, <3>2, Zenon DEF process_kill, TypeOK
    <3> QED
      BY <1>24, <3>1, <3>2, Zenon DEF system_data_abort_handler
  <2>3. TypeOK'
    BY <1>0, <1>24, <2>1, <2>2, SignalTypes, Zenon DEF system_data_abort_handler, TypeOK
  <2> QED
    BY <1>0, <1>24, <2>3, QuietStep, Zenon DEF system_data_abort_handler, IInv
<1>25. CASE powered_off
  BY <1>3, <1>25, Zenon DEF powered_off
<1> QED
  BY <1>3, <1>4, <1>5, <1>6, <1>7, <1>8, <1>9, <1>11, <1>12, <1>13, <1>14, <1>15, <1>16,
     <1>17, <1>18, <1>19, <1>20, <1>21, <1>22, <1>23, <1>24, <1>25, Zenon
  DEF Next, Kernel, Syscall, process_dispatch

\* The inductive invariant holds in every reachable state, for any number of
\* processes, signals and exit codes.
THEOREM ProcessInvariant == Spec => []IInv
<1>1. Init => IInv
  BY InitIInv, Zenon
<1>2. IInv /\ [Next]_vars => IInv'
  BY NextIInv, Zenon
<1> QED
  BY <1>1, <1>2, PTL DEF Spec

\* Type correctness of struct process and the globals of process.c.
THEOREM ProcessTyped == Spec => []TypeOK
<1>1. IInv => TypeOK
  BY Zenon DEF IInv
<1> QED
  BY <1>1, ProcessInvariant, PTL

\* process_dequeue never hands the CPU to a zombie, a sleeper or a destroyed
\* process, and the CPU always runs on behalf of a live READY one.
THEOREM RunQueueIsReady == Spec => []RunQueueReady
<1>1. IInv => RunQueueReady
  BY Zenon DEF IInv, SInv
<1> QED
  BY <1>1, ProcessInvariant, PTL

\* BLOCKED processes are exactly those with an entry in one wait queue, and
\* zombies keep no suspended context.
THEOREM BlockedAreWaiting == Spec => []WaitersBlocked
<1>1. IInv => WaitersBlocked
  BY Zenon DEF IInv, SInv
<1> QED
  BY <1>1, ProcessInvariant, PTL

\* fork, reaping and reparenting keep the family a tree rooted at init whose
\* children lists agree with the parent pointers.
THEOREM FamilyIsTree == Spec => []FamilyTree
<1>1. IInv => FamilyTree
  BY Zenon DEF IInv, SInv
<1> QED
  BY <1>1, ProcessInvariant, PTL

\* system_idle is entered only when no process could run.
THEOREM NoIdleWhileReady == Spec => []IdleMeansNoReady
<1>1. IInv => IdleMeansNoReady
  BY Zenon DEF IInv, SInv
<1> QED
  BY <1>1, ProcessInvariant, PTL

\* process_wake never touches a zombie: none is in a wait queue.
LEMMA WakeSparesDead ==
    ASSUME IInv, NEW one \in SUBSET Queues, NEW all \in SUBSET Queues,
           NEW s \in [Pids -> States], process_wake(one, all, s),
           NEW p \in procs, state[p] = "DEAD", s[p] = "DEAD"
    PROVE  state'[p] = "DEAD"
<1>1. p \in Pids /\ \A q \in Queues : p \notin InQueue(q)
  BY Zenon DEF IInv, SInv, TypeOK, WaitersBlocked
<1>2. p \notin woken(one, all) /\ state'[p] = IF p \in woken(one, all) THEN "READY" ELSE s[p]
  <2>1. TypeOK /\ WaitersBlocked
    BY Zenon DEF IInv, SInv
  <2>2. \A x \in woken(one, all) : \E q \in Queues : x \in InQueue(q)
    BY <2>1, WakeEffect, Zenon
  <2>3. \A x \in Pids : state'[x] = IF x \in woken(one, all) THEN "READY" ELSE s[x]
    BY <2>1, WakeEffect, ZenonT(60)
  <2> QED
    BY <1>1, <2>2, <2>3, Zenon
<1> QED
  BY <1>2, Zenon

\* No step changes the state of a zombie.
LEMMA DeadStep ==
    ASSUME IInv, [Next]_vars, NEW p \in procs, state[p] = "DEAD"
    PROVE  state'[p] = "DEAD"
<1> DEFINE dead == [state EXCEPT ![current] = "DEAD"]
<1> USE DEF sched
<1>1. /\ p \in Pids /\ state \in [Pids -> States] /\ dead \in [Pids -> States]
      /\ dead[p] = "DEAD"
  BY Zenon DEF IInv, TypeOK, States
<1>2. CASE state' = state
  BY <1>2, Zenon
<1>3. ASSUME cpu \in {"user", "wait", "io"}, NEW q, NEW loop, process_sleep(q, loop)
      PROVE  state'[p] = "DEAD"
  <2>1. p # current
    BY <1>3, RunningFacts, Zenon DEF IInv, SInv
  <2> QED
    BY <1>1, <1>3, <2>1, Zenon DEF process_sleep
<1>4. ASSUME NEW one \in SUBSET IoQueues, NEW all \in SUBSET IoQueues, process_wake(one, all, state)
      PROVE  state'[p] = "DEAD"
  <2>1. one \in SUBSET Queues /\ all \in SUBSET Queues
    BY Zenon DEF Queues
  <2> QED
    BY <1>1, <1>4, <2>1, WakeSparesDead, Zenon
<1>5. ASSUME NEW status, process_exit(status) PROVE state'[p] = "DEAD"
  <2>1. PICK released \in SUBSET IoQueues : process_wake({"child"}, released, dead)
    BY <1>5, Zenon DEF process_exit
  <2>2. {"child"} \in SUBSET Queues /\ released \in SUBSET Queues
    BY Zenon DEF Queues
  <2> QED
    BY <1>1, <2>1, <2>2, WakeSparesDead, Zenon
<1>6. ASSUME syscall_fork PROVE state'[p] = "DEAD"
  <2>1. p # max_id
    BY DEF IInv, SInv, TypeOK, FamilyTree, Pids
  <2> QED
    BY <1>1, <1>6, <2>1, Zenon DEF syscall_fork
<1>7. ASSUME cpu \in {"user", "wait"}, wait_loop PROVE state'[p] = "DEAD"
  BY <1>2, <1>3, <1>7, Zenon DEF wait_loop
<1>8. CASE Kernel
  <2>1. CASE process_switch
    BY <1>2, <2>1, Zenon DEF process_switch, process_dequeue
  <2>2. CASE process_dispatch
    BY <1>2, <1>5, <2>2, Zenon DEF process_dispatch, dispatch_resume, dispatch_user, dispatch_ignore,
       dispatch_fatal, dispatch_handler
  <2>3. CASE process_wait
    BY <1>7, <2>3, Zenon DEF process_wait
  <2>4. CASE io_sleep
    BY <1>3, <2>4, Zenon DEF io_sleep
  <2>5. CASE io_wake
    BY <1>4, <2>5, Zenon DEF io_wake
  <2>6. CASE io_return
    BY <1>2, <2>6, Zenon DEF io_return
  <2> QED
    BY <1>8, <2>1, <2>2, <2>3, <2>4, <2>5, <2>6, Zenon DEF Kernel
<1>9. CASE Syscall
  <2>1. CASE syscall_execve
    BY <1>4, <2>1, Zenon DEF syscall_execve
  <2>2. CASE syscall_close
    BY <1>4, <2>2, Zenon DEF syscall_close
  <2> QED
    BY <1>2, <1>5, <1>6, <1>7, <1>9, <2>1, <2>2, Zenon DEF Syscall, syscall_exit, syscall_wait4,
       syscall_sigreturn, syscall_io, syscall_kill, syscall_rt_sigaction, syscall_rt_sigprocmask
<1>10. CASE timer_irq \/ uart_irq \/ system_data_abort_handler \/ powered_off \/ UNCHANGED vars
  BY <1>2, <1>4, <1>10, Zenon DEF timer_irq, uart_irq, system_data_abort_handler, powered_off, vars
<1> QED
  BY <1>8, <1>9, <1>10, Zenon DEF Next

\* A zombie is never made READY again, although process_wake sets STATE_READY
\* without looking at the state.
THEOREM NoResurrection == Spec => DeadStaysDead
<1>1. IInv /\ [Next]_vars => [\A p \in procs : state[p] = "DEAD" => state'[p] = "DEAD"]_vars
  BY DeadStep, Zenon
<1> QED
  BY <1>1, ProcessInvariant, PTL DEF Spec, DeadStaysDead

-----------------------------------------------------------------------------
(* Signals *)

\* No step masks SIGKILL or SIGSTOP or changes their action.
LEMMA CleanStep == IInv /\ KillNotMaskable /\ [Next]_vars => KillNotMaskable'
<1> SUFFICES ASSUME IInv, KillNotMaskable, [Next]_vars, NEW p \in procs', NEW s \in unmaskable \cap Signals
             PROVE  /\ s \notin mask'[p]
                    /\ \A i \in DOMAIN frames'[p] : s \notin frames'[p][i]
                    /\ actions'[p][s].handler = "DFL"
                    /\ \A t \in Signals : s \notin actions'[p][t].mask
  BY Zenon DEF KillNotMaskable
<1> DEFINE Goal == /\ s \notin mask'[p]
                   /\ \A i \in DOMAIN frames'[p] : s \notin frames'[p][i]
                   /\ actions'[p][s].handler = "DFL"
                   /\ \A t \in Signals : s \notin actions'[p][t].mask
<1> USE ConstantsAssumption DEF family, sched
<1>0. TypeOK /\ TypeOK'
  BY NextIInv, Zenon DEF IInv
<1>1. \A q \in procs :
        /\ q \in Pids
        /\ s \notin mask[q]
        /\ \A i \in DOMAIN frames[q] : s \notin frames[q][i]
        /\ actions[q][s].handler = "DFL"
        /\ \A t \in Signals : s \notin actions[q][t].mask
  BY <1>0, ZenonT(60) DEF KillNotMaskable, TypeOK
<1>2. ASSUME cpu \in {"user", "dispatch", "wait", "io"} PROVE current \in procs /\ current \in Pids
  BY <1>2, RunningFacts, Zenon DEF IInv, SInv
<1>3. ASSUME procs' \subseteq procs, UNCHANGED <<mask, frames, actions>> PROVE Goal
  BY <1>1, <1>3, Zenon
<1>4. ASSUME NEW sig \in Signals, dispatch_handler(sig) PROVE Goal
  <2>1. current \in procs /\ current \in Pids /\ procs' = procs
    BY <1>2, <1>4, Zenon DEF dispatch_handler, chosen_signal
  <2>2. s # sig
    BY <1>1, <1>4, <2>1, Zenon DEF dispatch_handler
  <2>3. /\ mask' = [mask EXCEPT ![current] = mask[current] \cup actions[current][sig].mask \cup {sig}]
        /\ actions' = actions
        /\ frames' = [frames EXCEPT ![current] = <<mask[current]>> \o frames[current]]
    BY <1>0, <1>4, Zenon DEF dispatch_handler, TypeOK
  <2>4. s \notin mask'[p]
    BY <1>0, <1>1, <2>1, <2>2, <2>3, ZenonT(60) DEF TypeOK
  <2>5. \A i \in DOMAIN frames'[p] : s \notin frames'[p][i]
    <3>1. CASE p # current
      BY <1>0, <1>1, <2>1, <2>3, <3>1, Zenon DEF TypeOK
    <3>2. CASE p = current
      <4> DEFINE f == frames[current]
                 m == mask[current]
      <4>1. f \in Seq(SUBSET Signals) /\ m \in SUBSET Signals
        BY <1>0, <2>1, ZenonT(60) DEF TypeOK
      <4>2. frames'[p] = <<m>> \o f
        BY <1>0, <2>1, <2>3, <3>2, Zenon DEF TypeOK
      <4>3. s \notin m /\ \A i \in 1..Len(f) : s \notin f[i]
        BY <1>1, <2>1, <4>1
      <4> HIDE DEF f, m
      <4>4. \A i \in 1..(Len(f) + 1) : (<<m>> \o f)[i] = IF i = 1 THEN m ELSE f[i - 1]
        BY <4>1
      <4>5. DOMAIN (<<m>> \o f) = 1..(Len(f) + 1) /\ Len(f) \in Nat
        BY <4>1
      <4> QED
        BY <4>2, <4>3, <4>4, <4>5
    <3> QED
      BY <3>1, <3>2, Zenon
  <2> QED
    BY <1>1, <2>1, <2>3, <2>4, <2>5, Zenon
<1>5. CASE syscall_sigreturn
  <2>1. current \in procs /\ current \in Pids /\ procs' = procs
    BY <1>2, <1>5, Zenon DEF syscall_sigreturn
  <2> DEFINE f == frames[current]
  <2>2. f \in Seq(SUBSET Signals) /\ f # <<>>
    BY <1>0, <1>5, <2>1, ZenonT(60) DEF TypeOK, syscall_sigreturn
  <2>3. /\ mask' = [mask EXCEPT ![current] = Head(f)]
        /\ frames' = [frames EXCEPT ![current] = Tail(f)] /\ actions' = actions
    BY <1>0, <1>5, Zenon DEF syscall_sigreturn, TypeOK
  <2>4. \A i \in 1..Len(f) : s \notin f[i]
    BY <1>1, <2>1, <2>2
  <2>5. s \notin Head(f) /\ \A i \in DOMAIN Tail(f) : s \notin Tail(f)[i]
    <3> HIDE DEF f
    <3>1. Len(f) \in Nat \ {0} /\ Head(f) = f[1]
      BY <2>2
    <3>2. DOMAIN Tail(f) = 1..(Len(f) - 1) /\ \A i \in 1..(Len(f) - 1) : Tail(f)[i] = f[i + 1]
      BY <2>2, <3>1
    <3> QED
      BY <2>4, <3>1, <3>2
  <2>6. p = current => mask'[p] = Head(f) /\ frames'[p] = Tail(f)
    BY <1>0, <2>1, <2>3, Zenon DEF TypeOK
  <2>7. p # current => mask'[p] = mask[p] /\ frames'[p] = frames[p]
    BY <1>0, <1>1, <2>1, <2>3, Zenon DEF TypeOK
  <2> QED
    BY <1>1, <2>1, <2>3, <2>5, <2>6, <2>7, Zenon
<1>6. CASE syscall_fork
  <2>1. current \in procs /\ current \in Pids
    BY <1>2, <1>6, Zenon DEF syscall_fork
  <2>2. CASE p # max_id
    BY <1>1, <1>6, <2>2 DEF syscall_fork
  <2>3. CASE p = max_id
    <3>1. p \in Pids
      BY <1>0, Zenon DEF TypeOK
    <3>2. mask'[p] = mask[current] /\ frames'[p] = frames[current] /\ actions'[p] = actions[current]
      BY <1>0, <1>6, <2>3, <3>1, Zenon DEF syscall_fork, TypeOK
    <3> QED
      BY <1>1, <2>1, <3>2, Zenon
  <2> QED
    BY <2>2, <2>3, Zenon
<1>7. CASE syscall_execve
  <2>1. current \in procs /\ current \in Pids /\ procs' = procs /\ mask' = mask
    BY <1>2, <1>7, Zenon DEF syscall_execve
  <2>2. CASE p # current
    BY <1>1, <1>7, <2>1, <2>2 DEF syscall_execve
  <2>3. CASE p = current
    <3>1. frames'[p] = <<>>
      BY <1>0, <1>7, <2>1, <2>3, Zenon DEF syscall_execve, TypeOK
    <3>2. \A t \in Signals : actions'[p][t] = IF actions[p][t].handler = "HANDLER"
                                               THEN [actions[p][t] EXCEPT !.handler = "DFL"]
                                               ELSE actions[p][t]
      BY <1>0, <1>7, <2>1, <2>3, Zenon DEF syscall_execve, TypeOK
    <3>3. \A t \in Signals : actions[p][t] \in [handler : Handlers, mask : SUBSET Signals]
      BY <1>0, <2>1, <2>3 DEF TypeOK
    <3>4. \A t \in Signals : actions'[p][t].mask = actions[p][t].mask
      BY <3>2, <3>3, Zenon
    <3>5. actions'[p][s].handler = "DFL"
      BY <1>1, <2>1, <2>3, <3>2, Zenon
    <3>6. \A i \in DOMAIN frames'[p] : s \notin frames'[p][i]
      BY <3>1
    <3>7. s \notin mask'[p] /\ \A t \in Signals : s \notin actions'[p][t].mask
      BY <1>1, <2>1, <2>3, <3>4, Zenon
    <3> QED
      BY <3>5, <3>6, <3>7, Zenon
  <2> QED
    BY <2>2, <2>3, Zenon
<1>8. ASSUME NEW sig \in Signals, NEW handler \in Handlers, NEW set \in MaskArgs,
             syscall_rt_sigaction(sig, handler, set) PROVE Goal
  <2>1. /\ current \in procs /\ current \in Pids /\ procs' = procs
        /\ mask' = mask /\ frames' = frames /\ s # sig
    BY <1>2, <1>8, Zenon DEF syscall_rt_sigaction
  <2>2. s \notin sanitized(set)
    BY Zenon DEF sanitized
  <2>3. actions' = [actions EXCEPT ![current][sig] = [handler |-> handler, mask |-> sanitized(set)]]
    BY <1>8, ZenonT(60) DEF syscall_rt_sigaction
  <2>4. CASE p # current
    BY <1>0, <1>1, <2>1, <2>3, <2>4, ZenonT(60) DEF TypeOK
  <2>5. CASE p = current
    <3>1. \A t \in Signals : t # sig => actions'[p][t] = actions[p][t]
      BY <1>0, <2>1, <2>3, <2>5, ZenonT(60) DEF TypeOK
    <3>2. actions'[p][sig].mask = sanitized(set)
      BY <1>0, <2>1, <2>3, <2>5, ZenonT(60) DEF TypeOK
    <3> QED
      BY <1>1, <2>1, <2>2, <2>5, <3>1, <3>2, ZenonT(60)
  <2> QED
    BY <2>4, <2>5, Zenon
<1>9. ASSUME NEW how \in {"SIG_BLOCK", "SIG_UNBLOCK", "SIG_SETMASK"}, NEW set \in MaskArgs,
             syscall_rt_sigprocmask(how, set) PROVE Goal
  <2>1. current \in procs /\ current \in Pids /\ procs' = procs /\ actions' = actions /\ frames' = frames
    BY <1>2, <1>9, Zenon DEF syscall_rt_sigprocmask
  <2>2. s \notin new_mask(how, mask[current], set)
    BY <1>1, <2>1, Zenon DEF new_mask
  <2>3. mask' = [mask EXCEPT ![current] = new_mask(how, mask[current], set)]
    BY <1>0, <1>9, Zenon DEF syscall_rt_sigprocmask, TypeOK
  <2> QED
    BY <1>0, <1>1, <2>1, <2>2, <2>3, Zenon DEF TypeOK
<1>10. ASSUME cpu \in {"user", "wait"}, wait_loop PROVE Goal
  BY <1>3, <1>10, Zenon DEF wait_loop, process_destroy, signal
<1>11. ASSUME NEW status, process_exit(status) PROVE Goal
  BY <1>3, <1>11, Zenon DEF process_exit, signal
<1>12. CASE Kernel
  <2>1. CASE process_switch
    BY <1>3, <2>1, Zenon DEF process_switch, process_dequeue, signal
  <2>2. CASE process_dispatch
    BY <1>3, <1>4, <1>11, <2>2, Zenon DEF process_dispatch, dispatch_resume, dispatch_user,
       dispatch_ignore, dispatch_fatal, signal
  <2>3. CASE process_wait
    BY <1>10, <2>3, ZenonT(60) DEF process_wait
  <2>4. CASE io_sleep \/ io_wake \/ io_return
    BY <1>3, <2>4, ZenonT(60) DEF io_sleep, io_wake, io_return, process_kill, signal
  <2> QED
    BY <1>12, <2>1, <2>2, <2>3, <2>4, Zenon DEF Kernel
<1>13. CASE Syscall
  BY <1>3, <1>5, <1>6, <1>7, <1>8, <1>9, <1>10, <1>11, <1>13, ZenonT(60) DEF Syscall, syscall_exit,
     syscall_wait4, syscall_io, syscall_close, syscall_kill, process_kill, signal
<1>14. CASE timer_irq \/ uart_irq \/ system_data_abort_handler \/ powered_off \/ UNCHANGED vars
  BY <1>3, <1>14, Zenon DEF timer_irq, uart_irq, system_data_abort_handler, process_kill,
     powered_off, vars, signal
<1> QED
  BY <1>12, <1>13, <1>14, Zenon DEF Next

\* SIGKILL and SIGSTOP stay unmasked and at their default action through any
\* sequence of sigprocmask, sigaction, handlers, sigreturn, fork and exec.
THEOREM KillCannotBeMasked == Spec => []KillNotMaskable
<1>1. Init => KillNotMaskable
  <2> SUFFICES ASSUME Init, NEW p \in procs, NEW s \in unmaskable \cap Signals
               PROVE  /\ s \notin mask[p]
                      /\ \A i \in DOMAIN frames[p] : s \notin frames[p][i]
                      /\ actions[p][s].handler = "DFL"
                      /\ \A t \in Signals : s \notin actions[p][t].mask
    BY Zenon DEF KillNotMaskable
  <2>1. p \in Pids
    BY ConstantsAssumption DEF Init, Init1, Pids
  <2>2. mask[p] = {} /\ frames[p] = <<>>
    BY <2>1, Zenon DEF Init
  <2>3. \A t \in Signals : actions[p][t] = [handler |-> "DFL", mask |-> {}]
    BY <2>1, Zenon DEF Init
  <2>4. \A i \in DOMAIN frames[p] : s \notin frames[p][i]
    BY <2>2
  <2> QED
    BY <2>2, <2>3, <2>4
<1> QED
  BY <1>1, CleanStep, ProcessInvariant, PTL DEF Spec

\* Only process_dispatch records a signal as an exit status, and what it saw
\* stays true of the zombie.
LEMMA FatalStep == IInv /\ KilledOnlyByDefault /\ [Next]_vars => KilledOnlyByDefault'
<1> SUFFICES ASSUME IInv, KilledOnlyByDefault, [Next]_vars, NEW p \in procs', NEW s \in Signals,
                    state'[p] = "DEAD", exit_status'[p] = s
             PROVE  /\ s \in pending'[p] \ mask'[p]
                    /\ actions'[p][s].handler = "DFL"
                    /\ s \notin ignored_by_default
  BY Zenon DEF KilledOnlyByDefault, deliverable
<1> DEFINE Goal == /\ s \in pending'[p] \ mask'[p]
                   /\ actions'[p][s].handler = "DFL"
                   /\ s \notin ignored_by_default
<1> USE ConstantsAssumption DEF family, sched
<1>0. TypeOK /\ TypeOK' /\ p \in Pids
  BY NextIInv, Zenon DEF IInv, TypeOK
<1>1. ASSUME p \in procs, state[p] = "DEAD", exit_status[p] = s
      PROVE  /\ s \in pending[p] \ mask[p]
             /\ actions[p][s].handler = "DFL"
             /\ s \notin ignored_by_default
  BY <1>1, Zenon DEF KilledOnlyByDefault, deliverable
<1>2. ASSUME cpu \in {"user", "dispatch", "wait", "io"}
      PROVE  current \in procs /\ current \in Pids /\ state[current] = "READY"
  BY <1>2, RunningFacts, Zenon DEF IInv, SInv
\* The signal state of a zombie only gains pending signals.
<1>3. ASSUME p \in procs, state[p] = "DEAD", exit_status[p] = s, pending[p] \subseteq pending'[p],
             mask'[p] = mask[p], actions'[p] = actions[p]
      PROVE  Goal
  BY <1>1, <1>3, Zenon
<1>4. ASSUME procs' \subseteq procs, UNCHANGED <<state, exit_status, mask, pending, actions>> PROVE Goal
  BY <1>3, <1>4, Zenon
\* The process that dies now.
<1>5. ASSUME NEW status \in Nat, process_exit(status), cpu \in {"user", "dispatch"},
             status = s => /\ s \in pending[current] \ mask[current]
                           /\ actions[current][s].handler = "DFL"
                           /\ s \notin ignored_by_default
      PROVE  Goal
  <2> DEFINE dead == [state EXCEPT ![current] = "DEAD"]
  <2>1. /\ \E released \in SUBSET IoQueues : process_wake({"child"}, released, dead)
        /\ procs' = procs
        /\ exit_status' = [exit_status EXCEPT ![current] = status]
        /\ UNCHANGED <<mask, pending, actions>>
    BY <1>5, Zenon DEF process_exit, signal
  <2>2. CASE p = current
    <3>1. exit_status'[p] = status
      BY <1>0, <2>1, <2>2, ZenonT(60) DEF TypeOK
    <3> QED
      BY <1>5, <2>1, <2>2, <3>1, Zenon
  <2>3. CASE p # current
    <3>1. exit_status[p] = s /\ p \in procs
      BY <1>0, <2>1, <2>3, Zenon DEF TypeOK
    <3>2. state[p] = "DEAD"
      <4>1. dead[p] = state[p]
        BY <1>0, <2>3, Zenon DEF TypeOK
      <4>2. state'[p] = dead[p] \/ state'[p] = "READY"
        <5> HIDE DEF dead
        <5> QED
          BY <1>0, <2>1, <4>1, ZenonT(60) DEF process_wake
      <4> QED
        BY <4>1, <4>2, Zenon
    <3> QED
      BY <1>3, <2>1, <3>1, <3>2, Zenon
  <2> QED
    BY <2>2, <2>3, Zenon
<1>6. ASSUME NEW q, NEW loop, process_sleep(q, loop), procs' = procs, exit_status' = exit_status,
             UNCHANGED signal
      PROVE  Goal
  <2>1. state[p] = "DEAD"
    BY <1>0, <1>6, Zenon DEF process_sleep, TypeOK
  <2> QED
    BY <1>3, <1>6, <2>1, Zenon DEF signal
<1>7. ASSUME NEW one, NEW all, process_wake(one, all, state), procs' = procs, exit_status' = exit_status
      PROVE  p \in procs /\ state[p] = "DEAD" /\ exit_status[p] = s
  BY <1>0, <1>7, ZenonT(60) DEF process_wake, TypeOK
\* An action of the running process on its own signal state.
<1>8. ASSUME cpu \in {"user", "dispatch"}, UNCHANGED <<family, sched>>,
             \A x \in Pids \ {current} :
                pending'[x] = pending[x] /\ mask'[x] = mask[x] /\ actions'[x] = actions[x]
      PROVE  Goal
  <2>1. p # current
    BY <1>2, <1>8, ZenonT(60)
  <2> QED
    BY <1>0, <1>3, <1>8, <2>1, ZenonT(60)
<1>9. ASSUME NEW x \in Pids, NEW sig \in Signals, process_kill(x, sig), UNCHANGED <<family, sched>>
      PROVE  Goal
  <2>1. pending[p] \subseteq pending'[p]
    BY <1>0, <1>9, ZenonT(60) DEF process_kill, TypeOK
  <2> QED
    BY <1>3, <1>9, <2>1, Zenon DEF process_kill
<1>10. CASE syscall_fork
  <2>1. p # max_id
    BY <1>0, <1>10, ZenonT(60) DEF syscall_fork, TypeOK
  <2>2. /\ p \in procs /\ state[p] = "DEAD" /\ exit_status[p] = s
        /\ mask'[p] = mask[p] /\ pending'[p] = pending[p] /\ actions'[p] = actions[p]
    BY <1>0, <1>10, <2>1 DEF syscall_fork, TypeOK
  <2> QED
    BY <1>3, <2>2, ZenonT(60)
<1>11. ASSUME wait_loop PROVE Goal
  BY <1>4, <1>6, <1>11, ZenonT(60) DEF wait_loop, process_destroy, signal
<1>12. ASSUME NEW sig \in Signals, dispatch_fatal(sig) PROVE Goal
  <2>1. WAIT_SIGNAL(sig) = sig /\ sig \in Nat
    BY DEF WAIT_SIGNAL, NSIG
  <2>2. /\ process_exit(sig) /\ cpu = "dispatch"
        /\ sig \in pending[current] \ mask[current]
        /\ actions[current][sig].handler = "DFL" /\ sig \notin ignored_by_default
    BY <1>12, <2>1, Zenon DEF dispatch_fatal, chosen_signal, deliverable
  <2> QED
    BY <1>5, <2>1, <2>2, Zenon
<1>13. ASSUME NEW code \in ExitCodes, syscall_exit(code) PROVE Goal
  <2>1. WAIT_EXIT_CODE(code) \in Nat
    BY DEF WAIT_EXIT_CODE
  <2>2. WAIT_EXIT_CODE(code) # s
    <3>1. s \in 1..63
      BY DEF NSIG
    <3>2. code \in Nat
      OBVIOUS
    <3>3. code % 256 \in 0..255
      BY <3>2, SMTT(60)
    <3> QED
      BY <3>1, <3>3 DEF WAIT_EXIT_CODE
  <2> QED
    BY <1>5, <1>13, <2>1, <2>2, Zenon DEF syscall_exit
<1>14. ASSUME NEW sig \in Signals, dispatch_ignore(sig) \/ dispatch_handler(sig) PROVE Goal
  BY <1>0, <1>8, <1>14, ZenonT(60) DEF dispatch_ignore, dispatch_handler, chosen_signal, TypeOK
<1>15. CASE process_dispatch
  BY <1>4, <1>12, <1>14, <1>15, ZenonT(60) DEF process_dispatch, dispatch_resume, dispatch_user, signal
<1>16. CASE process_switch \/ process_wait \/ io_sleep
  BY <1>4, <1>6, <1>11, <1>16, ZenonT(60) DEF process_switch, process_dequeue, process_wait, io_sleep, signal
\* Sleepers are woken and the signal state stays.
<1>17. CASE io_wake \/ uart_irq \/ syscall_close
  <2>1. PICK one, all : process_wake(one, all, state)
    BY <1>17, Zenon DEF io_wake, uart_irq, syscall_close
  <2>2. procs' = procs /\ exit_status' = exit_status /\ UNCHANGED signal
    BY <1>17, Zenon DEF io_wake, uart_irq, syscall_close
  <2>3. p \in procs /\ state[p] = "DEAD" /\ exit_status[p] = s
    BY <1>7, <2>1, <2>2, Zenon
  <2> QED
    BY <1>3, <2>2, <2>3, ZenonT(60) DEF signal
<1>18. CASE syscall_execve
  <2>1. PICK released : process_wake({}, released, state)
    BY <1>18, Zenon DEF syscall_execve
  <2>2. procs' = procs /\ exit_status' = exit_status /\ mask' = mask /\ pending' = pending
    BY <1>18, ZenonT(60) DEF syscall_execve
  <2>3. p \in procs /\ state[p] = "DEAD" /\ exit_status[p] = s
    BY <1>7, <2>1, <2>2, Zenon
  <2>4. p # current
    BY <1>2, <1>18, <2>3, Zenon DEF syscall_execve
  <2>5. actions'[p] = actions[p]
    BY <1>0, <1>18, <2>4, ZenonT(60) DEF syscall_execve, TypeOK
  <2> QED
    BY <1>3, <2>2, <2>3, <2>5, Zenon
<1>19. CASE syscall_sigreturn
  BY <1>0, <1>8, <1>19, ZenonT(60) DEF syscall_sigreturn, TypeOK
<1>20. ASSUME NEW sig \in Signals, NEW handler \in Handlers, NEW set \in MaskArgs,
              syscall_rt_sigaction(sig, handler, set) PROVE Goal
  BY <1>0, <1>8, <1>20, ZenonT(60) DEF syscall_rt_sigaction, TypeOK
<1>21. ASSUME NEW how \in {"SIG_BLOCK", "SIG_UNBLOCK", "SIG_SETMASK"}, NEW set \in MaskArgs,
              syscall_rt_sigprocmask(how, set) PROVE Goal
  BY <1>0, <1>8, <1>21, ZenonT(60) DEF syscall_rt_sigprocmask, TypeOK
<1>22. CASE Syscall
  BY <1>4, <1>9, <1>10, <1>11, <1>13, <1>17, <1>18, <1>19, <1>20, <1>21, <1>22, ZenonT(60)
  DEF Syscall, syscall_wait4, syscall_io, syscall_kill, signal
<1>23. CASE system_data_abort_handler \/ io_return
  <2>1. /\ UNCHANGED <<family, sched>>
        /\ UNCHANGED signal \/ \E sig \in Signals : process_kill(current, sig)
    BY <1>23, ZenonT(60) DEF system_data_abort_handler, io_return
  <2>2. current \in Pids
    BY <1>2, <1>23, ZenonT(60) DEF system_data_abort_handler, io_return
  <2>3. CASE UNCHANGED signal
    BY <1>4, <2>1, <2>3, ZenonT(60) DEF signal
  <2>4. ASSUME NEW sig \in Signals, process_kill(current, sig) PROVE Goal
    BY <1>9, <2>1, <2>2, <2>4, Zenon
  <2> QED
    BY <2>1, <2>3, <2>4, Zenon
<1>24. CASE timer_irq \/ powered_off \/ UNCHANGED vars
  BY <1>4, <1>24, Zenon DEF timer_irq, powered_off, vars, signal
<1> QED
  BY <1>15, <1>16, <1>17, <1>22, <1>23, <1>24, Zenon DEF Next, Kernel

\* A process that died of a signal had it pending, unmasked and with a default
\* action that terminates.
THEOREM OnlyDefaultSignalsKill == Spec => []KilledOnlyByDefault
<1>1. Init => KilledOnlyByDefault
  BY ConstantsAssumption DEF Init, KilledOnlyByDefault, Init1, Pids
<1> QED
  BY <1>1, FatalStep, ProcessInvariant, PTL DEF Spec

-----------------------------------------------------------------------------
(* The terminal.  The inductive invariant *)

\* The queue q holds processes that sleep at place x of a call, each once.
Asleep(q, x, states, ops, places) ==
    /\ \A i \in 1..Len(q) : states[q[i]] = "BLOCKED" /\ ops[q[i]] # "none" /\ places[q[i]] = x
    /\ \A i, j \in 1..Len(q) : q[i] = q[j] => i = j

\* Both queues are like that.
Queued == Asleep(readq, "getc", task, op, at) /\ Asleep(writeq, "putc", task, op, at)

\* A process outside a call is READY, and one inside has characters left.
Called == \A p \in Procs : (op[p] = "none" => task[p] = "READY") /\ (op[p] # "none" => left[p] > 0)

\* Who runs in the kernel is in a call and READY.
Runs == running # NOBODY => op[running] # "none" /\ task[running] = "READY"

TtyInv == TtyTypeOK /\ SleepersWatched /\ Queued /\ Called /\ Runs

\* TtyTypeOK in three parts.
UartOK ==
    rx \in 0..RxMax /\ tx \in 0..TxMax /\ rxim \in BOOLEAN /\ txim \in BOOLEAN
QueuesOK ==
    /\ readq \in Seq(Procs) /\ writeq \in Seq(Procs)
    /\ task \in [Procs -> {"READY", "BLOCKED"}]
CallsOK ==
    /\ running \in Procs \cup {NOBODY}
    /\ op \in [Procs -> {"none", "read", "write"}]
    /\ at \in [Procs -> {"getc", "putc"}]
    /\ left \in [Procs -> Nat]
    /\ newline \in [Procs -> BOOLEAN]

\* The three parts together.
LEMMA TypeParts == TtyTypeOK <=> UartOK /\ QueuesOK /\ CallsOK
  BY Zenon DEF TtyTypeOK, UartOK, QueuesOK, CallsOK

\* The same after a step.
LEMMA TypeNext == UartOK' /\ QueuesOK' /\ CallsOK' => TtyTypeOK'
  BY Zenon DEF TtyTypeOK, UartOK, QueuesOK, CallsOK

\* A process on its way through the tty.
Going(p) == op[p] # "none" /\ task[p] = "READY"

\* Such a process needs no wakeup: SleepersWatched holds through it.
LEMMA GoingActive == ASSUME NEW p \in Procs, Going(p) PROVE Active # {}
  BY Zenon DEF Going, Active

-----------------------------------------------------------------------------
(* Wakeups *)

\* r is q without its first element.
RestOf(q, r) ==
    Len(r) = Len(q) - 1 /\ \A i \in 1..Len(r) : r[i] = q[i + 1] /\ i + 1 \in 1..Len(q)

\* An empty queue stays, of another the first process goes.
LEMMA HeadRest ==
    ASSUME NEW q \in Seq(Procs)
    PROVE  /\ rest(q) \in Seq(Procs)
           /\ q = <<>> => rest(q) = <<>> /\ head(q) = {}
           /\ q # <<>> => head(q) = {q[1]} /\ q[1] \in Procs /\ 1 \in 1..Len(q) /\ RestOf(q, rest(q))
<1>1. CASE q = <<>>
  BY <1>1 DEF rest, head
<1>2. CASE q # <<>>
  <2>1. rest(q) = Tail(q)
    BY <1>2, Zenon DEF rest
  <2>2. Tail(q) \in Seq(Procs) /\ RestOf(q, Tail(q)) /\ q[1] \in Procs /\ 1 \in 1..Len(q)
    BY <1>2 DEF RestOf
  <2>3. head(q) = {q[i] : i \in 1..1}
    BY <1>2, Zenon DEF head
  <2>4. 1..1 = {1}
    OBVIOUS
  <2>5. head(q) = {q[1]}
    BY <2>3, <2>4, Zenon
  <2> QED BY <1>2, <2>1, <2>2, <2>5, Zenon
<1> QED
  BY <1>1, <1>2, Zenon

\* The states T after the processes of W were woken from the states S.
Woken(S, T, W) == \A p \in Procs : T[p] = IF p \in W THEN "READY" ELSE S[p]

\* Who sleeps stays in its call, and nobody in W is at place x.
SameCalls(S, O, N) == \A p \in Procs : S[p] = "BLOCKED" => N[p] = O[p]
Elsewhere(W, P, x) == \A p \in W : P[p] # x

\* Sleepers of a queue stay when others are woken.
LEMMA OthersWoken ==
    ASSUME NEW q \in Seq(Procs), NEW x, NEW S, NEW T, NEW O, NEW N, NEW P, NEW W,
           Asleep(q, x, S, O, P), Woken(S, T, W),
           SameCalls(S, O, N), Elsewhere(W, P, x)
    PROVE  Asleep(q, x, T, N, P)
<1>1. ASSUME NEW i \in 1..Len(q)
      PROVE  T[q[i]] = "BLOCKED" /\ N[q[i]] # "none" /\ P[q[i]] = x
  <2>1. S[q[i]] = "BLOCKED" /\ O[q[i]] # "none" /\ P[q[i]] = x
    BY Zenon DEF Asleep
  <2>2. q[i] \in Procs
    OBVIOUS
  <2> QED BY <2>1, <2>2, Zenon DEF Woken, SameCalls, Elsewhere
<1>2. \A i, j \in 1..Len(q) : q[i] = q[j] => i = j
  BY Zenon DEF Asleep
<1> QED
  BY <1>1, <1>2, Zenon DEF Asleep

\* They stay too when the first one is woken, but for that.
LEMMA FirstWoken ==
    ASSUME NEW q \in Seq(Procs), NEW x, NEW S, NEW T, NEW O, NEW N, NEW P, NEW W,
           Asleep(q, x, S, O, P), Woken(S, T, head(q) \cup W),
           SameCalls(S, O, N), Elsewhere(W, P, x)
    PROVE  Asleep(rest(q), x, T, N, P)
<1>1. CASE q = <<>>
  <2>1. rest(q) = <<>>
    BY <1>1, HeadRest, Zenon
  <2> QED BY <2>1 DEF Asleep
<1>2. CASE q # <<>>
  <2> DEFINE r == rest(q)
  <2>1. head(q) = {q[1]} /\ 1 \in 1..Len(q) /\ RestOf(q, r)
    BY <1>2, HeadRest, Zenon
  <2> HIDE DEF r
  <2>2. ASSUME NEW i \in 1..Len(r)
        PROVE  r[i] = q[i + 1] /\ i + 1 \in 1..Len(q) /\ i + 1 # 1 /\ q[i + 1] \in Procs
    <3>1. r[i] = q[i + 1] /\ i + 1 \in 1..Len(q)
      BY <2>1, Zenon DEF RestOf
    <3>2. Len(q) \in Nat /\ Len(r) = Len(q) - 1
      BY <2>1 DEF RestOf
    <3>3. i + 1 # 1
      BY <3>2
    <3>4. q[i + 1] \in Procs
      BY <3>1
    <3> QED BY <3>1, <3>3, <3>4, Zenon
  <2>3. \A i, j \in 1..Len(q) : q[i] = q[j] => i = j
    BY Zenon DEF Asleep
  <2>4. ASSUME NEW i \in 1..Len(r)
        PROVE  T[r[i]] = "BLOCKED" /\ N[r[i]] # "none" /\ P[r[i]] = x
    <3>1. r[i] = q[i + 1] /\ i + 1 \in 1..Len(q) /\ i + 1 # 1 /\ q[i + 1] \in Procs
      BY <2>2, Zenon
    <3>2. S[r[i]] = "BLOCKED" /\ O[r[i]] # "none" /\ P[r[i]] = x
      BY <3>1, Zenon DEF Asleep
    <3>3. r[i] \notin head(q) \cup W
      BY <2>1, <2>3, <3>1, <3>2, Zenon DEF Elsewhere
    <3> QED BY <3>1, <3>2, <3>3, Zenon DEF Woken, SameCalls
  <2>5. ASSUME NEW i \in 1..Len(r), NEW j \in 1..Len(r), r[i] = r[j] PROVE i = j
    <3>a. r[i] = q[i + 1] /\ i + 1 \in 1..Len(q) /\ r[j] = q[j + 1] /\ j + 1 \in 1..Len(q)
      BY <2>2, Zenon
    <3>b. q[i + 1] = q[j + 1]
      BY <2>5, <3>a, Zenon
    <3>1. i + 1 = j + 1
      BY <2>3, <3>a, <3>b, Zenon
    <3>2. Len(q) \in Nat /\ Len(r) = Len(q) - 1
      BY <2>1 DEF RestOf
    <3> QED BY <3>1, <3>2
  <2>6. Asleep(r, x, T, N, P)
    BY <2>4, <2>5, Zenon DEF Asleep
  <2> QED BY <2>6, Zenon DEF r
<1> QED
  BY <1>1, <1>2, Zenon

\* What process_wake of the queues, the first if r and the second if w, leaves.
Roused(r, w) ==
    /\ \A p \in Procs : task[p] = "READY" => task'[p] = "READY"
    /\ (r /\ readq # <<>>) \/ (w /\ writeq # <<>>) => \E p \in Procs : Going(p)'
    /\ ~ ((r /\ readq # <<>>) \/ (w /\ writeq # <<>>)) =>
         readq' = readq /\ writeq' = writeq /\ task' = task

\* A wakeup keeps the queues right and leaves somebody who goes on.
LEMMA TtyWake ==
    ASSUME NEW r \in BOOLEAN, NEW w \in BOOLEAN, QueuesOK, Queued, wake(r, w), at' = at,
           SameCalls(task, op, op')
    PROVE  QueuesOK' /\ Queued' /\ Roused(r, w)
<1> DEFINE A == IF r THEN head(readq) ELSE {}
           B == IF w THEN head(writeq) ELSE {}
<1>1. /\ readq \in Seq(Procs) /\ writeq \in Seq(Procs)
      /\ task \in [Procs -> {"READY", "BLOCKED"}]
  BY Zenon DEF QueuesOK
<1>2. task' = [p \in Procs |-> IF p \in A \cup B THEN "READY" ELSE task[p]]
  BY Zenon DEF wake
<1>3. readq' = (IF r THEN rest(readq) ELSE readq) /\ writeq' = (IF w THEN rest(writeq) ELSE writeq)
  BY Zenon DEF wake
<1>4. readq = <<>> => rest(readq) = <<>> /\ head(readq) = {}
  BY <1>1, HeadRest, Zenon
<1>5. writeq = <<>> => rest(writeq) = <<>> /\ head(writeq) = {}
  BY <1>1, HeadRest, Zenon
<1>6. readq # <<>> => head(readq) = {readq[1]} /\ readq[1] \in Procs /\ 1 \in 1..Len(readq)
  BY <1>1, HeadRest, Zenon
<1>7. writeq # <<>> => head(writeq) = {writeq[1]} /\ writeq[1] \in Procs /\ 1 \in 1..Len(writeq)
  BY <1>1, HeadRest, Zenon
<1>8. Asleep(readq, "getc", task, op, at) /\ Asleep(writeq, "putc", task, op, at)
  BY Zenon DEF Queued
<1>9. ASSUME NEW p \in head(readq)
      PROVE  p \in Procs /\ at[p] = "getc" /\ task[p] = "BLOCKED" /\ op[p] # "none"
  <2>1. readq # <<>> /\ p = readq[1]
    BY <1>4, <1>6, Zenon
  <2> QED BY <1>6, <1>8, <2>1, Zenon DEF Asleep
<1>10. ASSUME NEW p \in head(writeq)
       PROVE  p \in Procs /\ at[p] = "putc" /\ task[p] = "BLOCKED" /\ op[p] # "none"
  <2>1. writeq # <<>> /\ p = writeq[1]
    BY <1>5, <1>7, Zenon
  <2> QED BY <1>7, <1>8, <2>1, Zenon DEF Asleep
<1>11. QueuesOK'
  <2>1. rest(readq) \in Seq(Procs) /\ rest(writeq) \in Seq(Procs)
    BY <1>1, HeadRest, Zenon
  <2>2. task' \in [Procs -> {"READY", "BLOCKED"}]
    BY <1>1, <1>2, Zenon
  <2>3. readq' \in Seq(Procs) /\ writeq' \in Seq(Procs)
    BY <1>1, <1>3, <2>1, Zenon
  <2> QED BY <2>2, <2>3, Zenon DEF QueuesOK
<1>12. Elsewhere(B, at, "getc")
  BY <1>10, Zenon DEF Elsewhere
<1>13. Elsewhere(A, at, "putc")
  BY <1>9, Zenon DEF Elsewhere
<1>14. Asleep(readq', "getc", task', op', at)
  <2>1. CASE r
    <3>1. Woken(task, task', head(readq) \cup B)
      BY <1>2, <2>1, Zenon DEF Woken
    <3> HIDE DEF A, B
    <3>2. Asleep(rest(readq), "getc", task', op', at)
      <4>1. readq \in Seq(Procs) /\ Asleep(readq, "getc", task, op, at)
        BY <1>1, <1>8, Zenon
      <4> QED BY <1>12, <3>1, <4>1, FirstWoken, ZenonT(60)
    <3> QED BY <1>3, <2>1, <3>2, Zenon
  <2>2. CASE ~ r
    <3>1. Woken(task, task', B)
      BY <1>2, <2>2, Zenon DEF Woken
    <3> HIDE DEF A, B
    <3>2. Asleep(readq, "getc", task', op', at)
      <4>1. readq \in Seq(Procs) /\ Asleep(readq, "getc", task, op, at)
        BY <1>1, <1>8, Zenon
      <4> QED BY <1>12, <3>1, <4>1, OthersWoken, ZenonT(60)
    <3> QED BY <1>3, <2>2, <3>2, Zenon
  <2> QED BY <2>1, <2>2, Zenon
<1>15. Asleep(writeq', "putc", task', op', at)
  <2>1. CASE w
    <3>1. Woken(task, task', head(writeq) \cup A)
      BY <1>2, <2>1, Zenon DEF Woken
    <3> HIDE DEF A, B
    <3>2. Asleep(rest(writeq), "putc", task', op', at)
      <4>1. writeq \in Seq(Procs) /\ Asleep(writeq, "putc", task, op, at)
        BY <1>1, <1>8, Zenon
      <4> QED BY <1>13, <3>1, <4>1, FirstWoken, ZenonT(60)
    <3> QED BY <1>3, <2>1, <3>2, Zenon
  <2>2. CASE ~ w
    <3>1. Woken(task, task', A)
      BY <1>2, <2>2, Zenon DEF Woken
    <3> HIDE DEF A, B
    <3>2. Asleep(writeq, "putc", task', op', at)
      <4>1. writeq \in Seq(Procs) /\ Asleep(writeq, "putc", task, op, at)
        BY <1>1, <1>8, Zenon
      <4> QED BY <1>13, <3>1, <4>1, OthersWoken, ZenonT(60)
    <3> QED BY <1>3, <2>2, <3>2, Zenon
  <2> QED BY <2>1, <2>2, Zenon
<1>16. Queued'
  BY <1>14, <1>15, Zenon DEF Queued
<1>17. \A p \in Procs : task[p] = "READY" => task'[p] = "READY"
  BY <1>2, Zenon
<1>18. ASSUME (r /\ readq # <<>>) \/ (w /\ writeq # <<>>) PROVE \E p \in Procs : Going(p)'
  <2>1. CASE r /\ readq # <<>>
    <3>1. readq[1] \in head(readq) /\ readq[1] \in A
      BY <1>6, <2>1, Zenon
    <3>2. task'[readq[1]] = "READY" /\ op'[readq[1]] # "none" /\ readq[1] \in Procs
      BY <1>2, <1>9, <3>1, Zenon DEF SameCalls
    <3> QED BY <3>2, Zenon DEF Going
  <2>2. CASE w /\ writeq # <<>>
    <3>1. writeq[1] \in head(writeq) /\ writeq[1] \in B
      BY <1>7, <2>2, Zenon
    <3>2. task'[writeq[1]] = "READY" /\ op'[writeq[1]] # "none" /\ writeq[1] \in Procs
      BY <1>2, <1>10, <3>1, Zenon DEF SameCalls
    <3> QED BY <3>2, Zenon DEF Going
  <2> QED BY <1>18, <2>1, <2>2, Zenon
<1>19. ASSUME ~ ((r /\ readq # <<>>) \/ (w /\ writeq # <<>>))
       PROVE  readq' = readq /\ writeq' = writeq /\ task' = task
  <2>1. A = {} /\ B = {}
    BY <1>4, <1>5, <1>19, Zenon
  <2>2. task' = task
    BY <1>1, <1>2, <2>1, Zenon
  <2>3. readq' = readq /\ writeq' = writeq
    BY <1>3, <1>4, <1>5, <1>19, Zenon
  <2> QED BY <2>2, <2>3, Zenon
<1> QED
  BY <1>11, <1>16, <1>17, <1>18, <1>19, Zenon DEF Roused

-----------------------------------------------------------------------------
(* The steps *)

\* Initially nobody is in the tty.
LEMMA TtyInitInv == TtyInit => TtyInv
<1> SUFFICES ASSUME TtyInit PROVE TtyInv
  OBVIOUS
<1>1. UartOK
  <2>1. 0 \in 0..RxMax /\ 0 \in 0..TxMax
    BY TtyAssumption
  <2> QED BY <2>1, Zenon DEF TtyInit, UartOK
<1>2. readq = <<>> /\ writeq = <<>> /\ running = NOBODY
  BY Zenon DEF TtyInit
<1>3. QueuesOK
  <2>1. <<>> \in Seq(Procs)
    OBVIOUS
  <2> QED BY <2>1, Zenon DEF TtyInit, QueuesOK
<1>4. CallsOK
  <2>1. 0 \in Nat
    OBVIOUS
  <2> QED BY <2>1, Zenon DEF TtyInit, CallsOK
<1>5. Queued
  BY <1>2 DEF Queued, Asleep
<1>6. Called
  BY Zenon DEF TtyInit, Called
<1> QED
  BY <1>1, <1>2, <1>3, <1>4, <1>5, <1>6, TypeParts, Zenon DEF TtyInv, Runs, SleepersWatched

\* The interrupt and the empty call only wake.
LEMMA WakeOnly ==
    ASSUME TtyInv, NEW r \in BOOLEAN, NEW w \in BOOLEAN, wake(r, w), running = NOBODY,
           UNCHANGED <<uart, calls, running>>
    PROVE  TtyInv'
<1>1. UartOK /\ QueuesOK /\ CallsOK /\ Queued /\ Called /\ SleepersWatched
  BY TypeParts, Zenon DEF TtyInv
<1>2. /\ rx' = rx /\ tx' = tx /\ rxim' = rxim /\ txim' = txim /\ running' = running
      /\ op' = op /\ at' = at /\ left' = left /\ newline' = newline
  BY Zenon DEF uart, calls
<1>3. SameCalls(task, op, op')
  BY <1>2, Zenon DEF SameCalls
<1>4. QueuesOK' /\ Queued' /\ Roused(r, w)
  BY <1>1, <1>2, <1>3, TtyWake, Zenon
<1>5. UartOK' /\ CallsOK'
  BY <1>1, <1>2, Zenon DEF UartOK, CallsOK
<1>6. Called'
  BY <1>1, <1>2, <1>4, Zenon DEF Called, Roused
<1>7. SleepersWatched'
  <2>1. CASE (r /\ readq # <<>>) \/ (w /\ writeq # <<>>)
    <3>1. PICK p \in Procs : Going(p)'
      BY <1>4, <2>1, Zenon DEF Roused
    <3>2. Active' # {}
      BY <3>1, Zenon DEF Active, Going
    <3> QED BY <3>2, Zenon DEF SleepersWatched
  <2>2. CASE ~ ((r /\ readq # <<>>) \/ (w /\ writeq # <<>>))
    <3>1. readq' = readq /\ writeq' = writeq /\ task' = task
      BY <1>4, <2>2, Zenon DEF Roused
    <3> QED BY <1>1, <1>2, <3>1, Zenon DEF SleepersWatched, Active
  <2> QED BY <2>1, <2>2, Zenon
<1>8. Runs'
  BY <1>2, Zenon DEF Runs
<1> QED
  BY <1>4, <1>5, <1>6, <1>7, <1>8, TypeNext, Zenon DEF TtyInv

\* A step that leaves queues and states alone and after which p goes on.
LEMMA GoesOn ==
    ASSUME TtyInv, NEW p \in Procs, UartOK', CallsOK', UNCHANGED queues,
           \A q \in Procs \ {p} : op'[q] = op[q] /\ left'[q] = left[q] /\ at'[q] = at[q],
           task[p] = "READY", op'[p] # "none", left'[p] > 0, running' = p
    PROVE  TtyInv'
<1>1. QueuesOK /\ Queued /\ Called
  BY TypeParts, Zenon DEF TtyInv
<1>2. readq' = readq /\ writeq' = writeq /\ task' = task
  BY Zenon DEF queues
<1>3. QueuesOK'
  BY <1>1, <1>2, Zenon DEF QueuesOK
<1>4. readq \in Seq(Procs) /\ writeq \in Seq(Procs)
  BY <1>1, Zenon DEF QueuesOK
<1>5. ASSUME NEW q \in Seq(Procs), NEW x, Asleep(q, x, task, op, at)
      PROVE  Asleep(q, x, task, op', at')
  <2>1. ASSUME NEW i \in 1..Len(q)
        PROVE  task[q[i]] = "BLOCKED" /\ op'[q[i]] # "none" /\ at'[q[i]] = x
    <3>1. task[q[i]] = "BLOCKED" /\ op[q[i]] # "none" /\ at[q[i]] = x
      BY <1>5, Zenon DEF Asleep
    <3>2. q[i] \in Procs
      OBVIOUS
    <3> QED BY <3>1, <3>2, Zenon
  <2> QED BY <1>5, <2>1, Zenon DEF Asleep
<1>6. Queued'
  <2>1. Asleep(readq, "getc", task, op', at') /\ Asleep(writeq, "putc", task, op', at')
    BY <1>1, <1>4, <1>5, Zenon DEF Queued
  <2> QED BY <1>2, <2>1, Zenon DEF Queued
<1>7. Called'
  <2> SUFFICES ASSUME NEW q \in Procs
               PROVE  (op'[q] = "none" => task'[q] = "READY") /\ (op'[q] # "none" => left'[q] > 0)
    BY Zenon DEF Called
  <2> QED BY <1>1, <1>2, Zenon DEF Called
<1>8. Runs' /\ Going(p)'
  BY <1>2, Zenon DEF Runs, Going
<1>9. SleepersWatched'
  <2>1. Active' # {}
    BY <1>8, Zenon DEF Active, Going
  <2> QED BY <2>1, Zenon DEF SleepersWatched
<1> QED
  BY <1>3, <1>6, <1>7, <1>8, <1>9, TypeNext, Zenon DEF TtyInv

\* p, asleep no more than before, is the new sleeper in front of a queue.
LEMMA FrontSleeper ==
    ASSUME NEW q \in Seq(Procs), NEW x, NEW p \in Procs, Asleep(q, x, task, op, at),
           task \in [Procs -> {"READY", "BLOCKED"}],
           task[p] = "READY", op[p] # "none", at[p] = x
    PROVE  /\ <<p>> \o q \in Seq(Procs) /\ <<p>> \o q # <<>>
           /\ Asleep(<<p>> \o q, x, [task EXCEPT ![p] = "BLOCKED"], op, at)
<1> DEFINE v == <<p>> \o q
           T == [task EXCEPT ![p] = "BLOCKED"]
<1>1. /\ v \in Seq(Procs) /\ v # <<>> /\ Len(q) \in Nat /\ Len(v) = Len(q) + 1 /\ v[1] = p
      /\ \A i \in 1..Len(v) : i # 1 => i - 1 \in 1..Len(q) /\ v[i] = q[i - 1]
  OBVIOUS
<1> HIDE DEF v
<1>2. \A i \in 1..Len(q) : task[q[i]] = "BLOCKED" /\ op[q[i]] # "none" /\ at[q[i]] = x
  BY Zenon DEF Asleep
<1>3. \A i, j \in 1..Len(q) : q[i] = q[j] => i = j
  BY Zenon DEF Asleep
<1>4. ASSUME NEW i \in 1..Len(q) PROVE q[i] \in Procs /\ q[i] # p /\ T[q[i]] = "BLOCKED"
  <2>1. q[i] \in Procs
    OBVIOUS
  <2>2. task[q[i]] = "BLOCKED"
    BY <1>2, Zenon
  <2>3. q[i] # p
    BY <2>2, Zenon
  <2> QED BY <2>1, <2>2, <2>3, Zenon
<1>5. T[p] = "BLOCKED"
  BY Zenon
<1> HIDE DEF T
<1>6. ASSUME NEW i \in 1..Len(v) PROVE T[v[i]] = "BLOCKED" /\ op[v[i]] # "none" /\ at[v[i]] = x
  <2>1. CASE i = 1
    BY <1>1, <1>5, <2>1, Zenon
  <2>2. CASE i # 1
    <3>1. i - 1 \in 1..Len(q) /\ v[i] = q[i - 1]
      BY <1>1, <2>2, Zenon
    <3> QED BY <1>2, <1>4, <3>1, Zenon
  <2> QED BY <2>1, <2>2, Zenon
<1>7. ASSUME NEW i \in 1..Len(v), NEW j \in 1..Len(v), v[i] = v[j] PROVE i = j
  <2>1. ASSUME NEW k \in 1..Len(v), k # 1 PROVE k - 1 \in 1..Len(q) /\ v[k] = q[k - 1] /\ v[k] # p
    <3>1. k - 1 \in 1..Len(q) /\ v[k] = q[k - 1]
      BY <1>1, <2>1, Zenon
    <3> QED BY <1>4, <3>1, Zenon
  <2>2. CASE i = 1 \/ j = 1
    BY <1>1, <1>7, <2>1, <2>2, Zenon
  <2>3. CASE i # 1 /\ j # 1
    <3>1. i - 1 = j - 1
      BY <1>3, <1>7, <2>1, <2>3, Zenon
    <3> QED BY <1>1, <3>1
  <2> QED BY <2>2, <2>3, Zenon
<1>8. Asleep(v, x, T, op, at)
  BY <1>6, <1>7, Zenon DEF Asleep
<1> QED
  BY <1>1, <1>8, Zenon DEF v, T

\* The sleepers of the other queue stay.
LEMMA OtherSleepers ==
    ASSUME NEW q \in Seq(Procs), NEW x, NEW p \in Procs, Asleep(q, x, task, op, at),
           task \in [Procs -> {"READY", "BLOCKED"}]
    PROVE  Asleep(q, x, [task EXCEPT ![p] = "BLOCKED"], op, at)
<1> DEFINE T == [task EXCEPT ![p] = "BLOCKED"]
<1>1. ASSUME NEW i \in 1..Len(q) PROVE T[q[i]] = "BLOCKED" /\ op[q[i]] # "none" /\ at[q[i]] = x
  <2>1. task[q[i]] = "BLOCKED" /\ op[q[i]] # "none" /\ at[q[i]] = x
    BY Zenon DEF Asleep
  <2>2. q[i] \in Procs
    OBVIOUS
  <2> QED BY <2>1, <2>2, Zenon
<1> HIDE DEF T
<1>2. Asleep(q, x, T, op, at)
  BY <1>1, Zenon DEF Asleep
<1> QED
  BY <1>2, Zenon DEF T

\* A process goes to sleep with its interrupt on.
LEMMA TtySleep ==
    ASSUME TtyInv, NEW p \in Procs, tty_getc_sleep(p) \/ tty_putc_sleep(p)
    PROVE  TtyInv'
<1>1. UartOK /\ QueuesOK /\ CallsOK /\ Queued /\ Called /\ Runs
  BY TypeParts, Zenon DEF TtyInv
<1>2. /\ running = p /\ running' = NOBODY /\ task' = [task EXCEPT ![p] = "BLOCKED"]
      /\ op' = op /\ at' = at /\ left' = left /\ newline' = newline /\ rx' = rx /\ tx' = tx
  BY Zenon DEF tty_getc_sleep, tty_putc_sleep, calls
<1>3. op[p] # "none" /\ task[p] = "READY"
  BY <1>1, <1>2, TtyAssumption, Zenon DEF Runs
<1>4. /\ readq \in Seq(Procs) /\ writeq \in Seq(Procs) /\ task \in [Procs -> {"READY", "BLOCKED"}]
      /\ Asleep(readq, "getc", task, op, at) /\ Asleep(writeq, "putc", task, op, at)
  BY <1>1, Zenon DEF QueuesOK, Queued
<1>5. CallsOK' /\ task' \in [Procs -> {"READY", "BLOCKED"}]
  BY <1>1, <1>2, <1>4, Zenon DEF CallsOK
<1>6. Called' /\ Runs'
  <2>1. \A q \in Procs \ {p} : task'[q] = task[q]
    BY <1>2, <1>4, Zenon
  <2>2. Called'
    BY <1>1, <1>2, <1>3, <2>1, Zenon DEF Called
  <2> QED BY <1>2, <2>2, Zenon DEF Runs
<1>7. CASE tty_getc_sleep(p)
  <2>1. /\ at[p] = "getc" /\ rxim' = TRUE /\ txim' = txim
        /\ readq' = <<p>> \o readq /\ writeq' = writeq
    BY <1>7, Zenon DEF tty_getc_sleep
  <2>2. readq' \in Seq(Procs) /\ readq' # <<>> /\ Asleep(readq', "getc", task', op, at)
    BY <1>2, <1>3, <1>4, <2>1, FrontSleeper, Zenon
  <2>3. Asleep(writeq', "putc", task', op, at)
    BY <1>2, <1>4, <2>1, OtherSleepers, Zenon
  <2>4. QueuesOK' /\ Queued'
    BY <1>2, <1>4, <1>5, <2>1, <2>2, <2>3, Zenon DEF QueuesOK, Queued
  <2>5. UartOK'
    BY <1>1, <1>2, <2>1, Zenon DEF UartOK
  <2>6. SleepersWatched'
    BY <2>1, <2>2, Zenon DEF SleepersWatched
  <2> QED BY <1>5, <1>6, <2>4, <2>5, <2>6, TypeNext, Zenon DEF TtyInv
<1>8. CASE tty_putc_sleep(p)
  <2>1. /\ at[p] = "putc" /\ txim' = TRUE /\ rxim' = rxim
        /\ writeq' = <<p>> \o writeq /\ readq' = readq
    BY <1>8, Zenon DEF tty_putc_sleep
  <2>2. writeq' \in Seq(Procs) /\ writeq' # <<>> /\ Asleep(writeq', "putc", task', op, at)
    BY <1>2, <1>3, <1>4, <2>1, FrontSleeper, Zenon
  <2>3. Asleep(readq', "getc", task', op, at)
    BY <1>2, <1>4, <2>1, OtherSleepers, Zenon
  <2>4. QueuesOK' /\ Queued'
    BY <1>2, <1>4, <1>5, <2>1, <2>2, <2>3, Zenon DEF QueuesOK, Queued
  <2>5. UartOK'
    BY <1>1, <1>2, <2>1, Zenon DEF UartOK
  <2>6. SleepersWatched'
    BY <2>1, <2>2, Zenon DEF SleepersWatched
  <2> QED BY <1>5, <1>6, <2>4, <2>5, <2>6, TypeNext, Zenon DEF TtyInv
<1> QED
  BY <1>7, <1>8, Zenon

\* The device takes and sends characters.
LEMMA UartStep ==
    ASSUME TtyInv, uart_receive \/ uart_transmit
    PROVE  TtyInv'
<1>1. UartOK /\ QueuesOK /\ CallsOK /\ Queued /\ Called /\ SleepersWatched /\ Runs
  BY TypeParts, Zenon DEF TtyInv
<1>2. /\ rxim' = rxim /\ txim' = txim /\ running' = running
      /\ readq' = readq /\ writeq' = writeq /\ task' = task
      /\ op' = op /\ at' = at /\ left' = left /\ newline' = newline
  BY Zenon DEF uart_receive, uart_transmit, queues, calls
<1>3. rx \in 0..RxMax /\ tx \in 0..TxMax /\ RxMax \in Nat /\ TxMax \in Nat
  BY <1>1, TtyAssumption DEF UartOK
<1>4. rx' \in 0..RxMax /\ tx' \in 0..TxMax
  BY <1>3 DEF uart_receive, uart_transmit
<1>5. UartOK'
  BY <1>1, <1>2, <1>4, Zenon DEF UartOK
<1>6. QueuesOK' /\ CallsOK'
  BY <1>1, <1>2, Zenon DEF QueuesOK, CallsOK
<1>7. Queued' /\ Called' /\ Runs'
  BY <1>1, <1>2, Zenon DEF Queued, Called, Runs
<1>8. SleepersWatched'
  BY <1>1, <1>2, Zenon DEF SleepersWatched, Active
<1> QED
  BY <1>5, <1>6, <1>7, <1>8, TypeNext, Zenon DEF TtyInv

\* A call starts.
LEMMA CallStep ==
    ASSUME TtyInv, NEW p \in Procs, NEW o \in {"read", "write"}, NEW size \in Sizes, tty_call(p, o, size)
    PROVE  TtyInv'
<1>1. UartOK /\ QueuesOK /\ CallsOK /\ Called
  BY TypeParts, Zenon DEF TtyInv
<1>2. /\ op[p] = "none" /\ op' = [op EXCEPT ![p] = o]
      /\ at' = [at EXCEPT ![p] = IF o = "read" THEN "getc" ELSE "putc"]
      /\ left' = [left EXCEPT ![p] = size] /\ newline' \in {newline, [newline EXCEPT ![p] = ~@]}
      /\ running' = p /\ UNCHANGED <<uart, queues>>
  BY Zenon DEF tty_call
<1>3. size \in Nat /\ size > 0
  BY TtyAssumption
<1>4. /\ op \in [Procs -> {"none", "read", "write"}] /\ at \in [Procs -> {"getc", "putc"}]
      /\ left \in [Procs -> Nat] /\ newline \in [Procs -> BOOLEAN]
  BY <1>1, Zenon DEF CallsOK
<1>5. /\ op' \in [Procs -> {"none", "read", "write"}] /\ at' \in [Procs -> {"getc", "putc"}]
      /\ left' \in [Procs -> Nat] /\ newline' \in [Procs -> BOOLEAN]
  <2>1. op' \in [Procs -> {"none", "read", "write"}]
    BY <1>2, <1>4, Zenon
  <2>2. at' \in [Procs -> {"getc", "putc"}]
    BY <1>2, <1>4, Zenon
  <2>3. left' \in [Procs -> Nat]
    BY <1>2, <1>3, <1>4, Zenon
  <2>4. newline' \in [Procs -> BOOLEAN]
    BY <1>2, <1>4, Zenon
  <2> QED BY <2>1, <2>2, <2>3, <2>4, Zenon
<1>6. CallsOK'
  BY <1>2, <1>5, Zenon DEF CallsOK
<1>7. UartOK'
  BY <1>1, <1>2, Zenon DEF UartOK, uart
<1>8. op'[p] # "none" /\ left'[p] > 0
  <2>1. op'[p] = o /\ left'[p] = size
    BY <1>2, <1>4, Zenon
  <2> QED BY <1>3, <2>1, Zenon
<1>9. \A q \in Procs \ {p} : op'[q] = op[q] /\ left'[q] = left[q] /\ at'[q] = at[q]
  BY <1>2, <1>4, Zenon
<1>10. task[p] = "READY"
  BY <1>1, <1>2, Zenon DEF Called
<1> QED
  BY <1>2, <1>6, <1>7, <1>8, <1>9, <1>10, GoesOn, Zenon

\* A woken process goes on, and masks its interrupt.
LEMMA TtyResume ==
    ASSUME TtyInv, NEW p \in Procs, process_resume(p)
    PROVE  TtyInv'
<1>1. UartOK /\ QueuesOK /\ CallsOK /\ Called
  BY TypeParts, Zenon DEF TtyInv
<1>2. /\ op[p] # "none" /\ task[p] = "READY" /\ running' = p
      /\ rxim' = (rxim /\ at[p] # "getc") /\ txim' = (txim /\ at[p] # "putc")
      /\ rx' = rx /\ tx' = tx /\ UNCHANGED queues
      /\ op' = op /\ at' = at /\ left' = left /\ newline' = newline
  BY Zenon DEF process_resume, calls
<1>3. CallsOK'
  BY <1>1, <1>2, Zenon DEF CallsOK
<1>4. UartOK'
  BY <1>1, <1>2, Zenon DEF UartOK
<1>5. left'[p] > 0 /\ op'[p] # "none"
  BY <1>1, <1>2, Zenon DEF Called
<1>6. \A q \in Procs \ {p} : op'[q] = op[q] /\ left'[q] = left[q] /\ at'[q] = at[q]
  BY <1>2, Zenon
<1> QED
  BY <1>2, <1>3, <1>4, <1>5, <1>6, GoesOn, Zenon

\* A character comes in.
LEMMA GetcStep ==
    ASSUME TtyInv, NEW p \in Procs, tty_getc(p)
    PROVE  TtyInv'
<1>1. UartOK /\ QueuesOK /\ CallsOK /\ Called /\ Runs
  BY TypeParts, Zenon DEF TtyInv
<1>2. /\ running = p /\ rx > 0 /\ rx' = rx - 1
      /\ newline' \in {[newline EXCEPT ![p] = b] : b \in BOOLEAN}
      /\ at' = [at EXCEPT ![p] = "putc"]
      /\ tx' = tx /\ rxim' = rxim /\ txim' = txim /\ UNCHANGED queues
      /\ op' = op /\ left' = left /\ running' = running
  BY Zenon DEF tty_getc, uart_can_recv
<1>3. op[p] # "none" /\ task[p] = "READY"
  BY <1>1, <1>2, TtyAssumption, Zenon DEF Runs
<1>4. /\ op \in [Procs -> {"none", "read", "write"}] /\ at \in [Procs -> {"getc", "putc"}]
      /\ left \in [Procs -> Nat] /\ newline \in [Procs -> BOOLEAN]
  BY <1>1, Zenon DEF CallsOK
<1>5. at' \in [Procs -> {"getc", "putc"}] /\ newline' \in [Procs -> BOOLEAN]
  BY <1>2, <1>4, Zenon
<1>6. CallsOK'
  BY <1>2, <1>4, <1>5, Zenon DEF CallsOK
<1>7. UartOK'
  <2>1. rx \in 0..RxMax /\ RxMax \in Nat
    BY <1>1, TtyAssumption DEF UartOK
  <2>2. rx' \in 0..RxMax
    BY <1>2, <2>1
  <2> QED BY <1>1, <1>2, <2>2, Zenon DEF UartOK
<1>8. left'[p] > 0 /\ op'[p] # "none" /\ running' = p
  BY <1>1, <1>2, <1>3, Zenon DEF Called
<1>9. \A q \in Procs \ {p} : op'[q] = op[q] /\ left'[q] = left[q] /\ at'[q] = at[q]
  BY <1>2, <1>4, Zenon
<1> QED
  BY <1>2, <1>3, <1>6, <1>7, <1>8, <1>9, GoesOn, Zenon

\* A character goes out: the last one of the call, or not.
LEMMA PutcStep ==
    ASSUME TtyInv, NEW p \in Procs, tty_putc(p)
    PROVE  TtyInv'
<1>1. UartOK /\ QueuesOK /\ CallsOK /\ Queued /\ Called /\ Runs
  BY TypeParts, Zenon DEF TtyInv
<1>2. /\ running = p /\ tx < TxMax /\ tx' = sent(p) /\ left' = [left EXCEPT ![p] = @ - 1]
      /\ rx' = rx /\ rxim' = rxim /\ txim' = txim
  BY Zenon DEF tty_putc, uart_can_send
<1>3. op[p] # "none" /\ task[p] = "READY" /\ left[p] > 0
  BY <1>1, <1>2, TtyAssumption, Zenon DEF Runs, Called
<1>4. /\ op \in [Procs -> {"none", "read", "write"}] /\ at \in [Procs -> {"getc", "putc"}]
      /\ left \in [Procs -> Nat] /\ newline \in [Procs -> BOOLEAN]
  BY <1>1, Zenon DEF CallsOK
<1>5. UartOK'
  <2>1. tx \in 0..TxMax /\ TxMax \in Nat
    BY <1>1, TtyAssumption DEF UartOK
  <2>2. tx' = tx + 1 \/ (tx' = tx + 2 /\ tx + 2 <= TxMax)
    BY <1>2, Zenon DEF sent
  <2>3. tx' \in 0..TxMax
    BY <1>2, <2>1, <2>2
  <2> QED BY <1>1, <1>2, <2>3, Zenon DEF UartOK
<1>6. left' \in [Procs -> Nat] /\ left'[p] = left[p] - 1
  <2>1. left[p] \in Nat
    BY <1>4, Zenon
  <2>2. left[p] - 1 \in Nat
    BY <1>3, <2>1
  <2> QED BY <1>2, <1>4, <2>2, Zenon
<1>7. ASSUME wake_next(p), UNCHANGED <<at, newline>> PROVE TtyInv'
  <2>1. wake(TRUE, TRUE) /\ op' = [op EXCEPT ![p] = "none"] /\ running' = NOBODY
    BY <1>7, Zenon DEF wake_next
  <2>2. SameCalls(task, op, op')
    BY <1>3, <1>4, <2>1, Zenon DEF SameCalls
  <2>3. at' = at /\ newline' = newline
    BY <1>7, Zenon
  <2>4. QueuesOK' /\ Queued' /\ Roused(TRUE, TRUE)
    BY <1>1, <2>1, <2>2, <2>3, TtyWake, Zenon
  <2>5. CallsOK'
    <3>1. op' \in [Procs -> {"none", "read", "write"}]
      BY <1>4, <2>1, Zenon
    <3> QED BY <1>4, <1>6, <2>1, <2>3, <3>1, Zenon DEF CallsOK
  <2>6. Called'
    <3> SUFFICES ASSUME NEW q \in Procs
                 PROVE  (op'[q] = "none" => task'[q] = "READY") /\ (op'[q] # "none" => left'[q] > 0)
      BY Zenon DEF Called
    <3>1. CASE q = p
      <4>1. op'[p] = "none" /\ task'[p] = "READY"
        BY <1>3, <1>4, <2>1, <2>4, Zenon DEF Roused
      <4> QED BY <3>1, <4>1, Zenon
    <3>2. CASE q # p
      <4>1. op'[q] = op[q] /\ left'[q] = left[q]
        BY <1>2, <1>4, <2>1, <3>2, Zenon
      <4>2. (op[q] = "none" => task[q] = "READY") /\ (op[q] # "none" => left[q] > 0)
        BY <1>1, Zenon DEF Called
      <4> QED BY <2>4, <4>1, <4>2, Zenon DEF Roused
    <3> QED BY <3>1, <3>2, Zenon
  <2>7. Runs'
    BY <2>1, Zenon DEF Runs
  <2>8. SleepersWatched'
    <3>1. CASE readq # <<>> \/ writeq # <<>>
      <4>1. PICK q \in Procs : Going(q)'
        BY <2>4, <3>1, Zenon DEF Roused
      <4>2. Active' # {}
        BY <4>1, Zenon DEF Active, Going
      <4> QED BY <4>2, Zenon DEF SleepersWatched
    <3>2. CASE readq = <<>> /\ writeq = <<>>
      <4>1. readq' = <<>> /\ writeq' = <<>>
        BY <2>4, <3>2, Zenon DEF Roused
      <4> QED BY <4>1, Zenon DEF SleepersWatched
    <3> QED BY <3>1, <3>2, Zenon
  <2> QED BY <1>5, <2>4, <2>5, <2>6, <2>7, <2>8, TypeNext, Zenon DEF TtyInv
<1>8. ASSUME left[p] > 1, at' = [at EXCEPT ![p] = IF op[p] = "read" THEN "getc" ELSE "putc"],
             newline' \in {newline, [newline EXCEPT ![p] = ~@]}, UNCHANGED <<queues, op, running>>
      PROVE  TtyInv'
  <2>1. op' = op /\ running' = running /\ UNCHANGED queues
    BY <1>8, Zenon
  <2>2. at' \in [Procs -> {"getc", "putc"}]
    BY <1>4, <1>8, Zenon
  <2>3. newline' \in [Procs -> BOOLEAN]
    BY <1>4, <1>8, Zenon
  <2>4. CallsOK'
    BY <1>1, <1>4, <1>6, <2>1, <2>2, <2>3, Zenon DEF CallsOK
  <2>5. left'[p] > 0
    <3>1. left[p] \in Nat
      BY <1>4, Zenon
    <3> QED BY <1>6, <1>8, <3>1
  <2>6. \A q \in Procs \ {p} : op'[q] = op[q] /\ left'[q] = left[q] /\ at'[q] = at[q]
    BY <1>2, <1>4, <1>8, <2>1, Zenon
  <2>7. op'[p] # "none" /\ running' = p
    BY <1>2, <1>3, <2>1, Zenon
  <2> QED BY <1>3, <1>5, <2>1, <2>4, <2>5, <2>6, <2>7, GoesOn, Zenon
<1> QED
  BY <1>7, <1>8, Zenon DEF tty_putc

\* Every step keeps the invariant.
LEMMA TtyNextInv == TtyInv /\ [TtyNext]_tty_vars => TtyInv'
<1> SUFFICES ASSUME TtyInv, [TtyNext]_tty_vars PROVE TtyInv'
  OBVIOUS
<1>1. CASE uart_receive \/ uart_transmit
  BY <1>1, UartStep, Zenon
<1>2. CASE tty_resume
  <2>1. uart_can_recv \in BOOLEAN /\ uart_can_send \in BOOLEAN
    BY DEF uart_can_recv, uart_can_send
  <2>2. wake(uart_can_recv, uart_can_send) /\ running = NOBODY /\ UNCHANGED <<uart, calls, running>>
    BY <1>2, Zenon DEF tty_resume
  <2> QED BY <2>1, <2>2, WakeOnly, Zenon
<1>3. ASSUME NEW p \in Procs, tty_call_empty(p) PROVE TtyInv'
  <2>1. wake(TRUE, TRUE) /\ running = NOBODY /\ UNCHANGED <<uart, calls, running>>
    BY <1>3, Zenon DEF tty_call_empty
  <2> QED BY <2>1, WakeOnly, Zenon
<1>4. ASSUME NEW p \in Procs, process_resume(p) PROVE TtyInv'
  BY <1>4, TtyResume, Zenon
<1>5. ASSUME NEW p \in Procs, InKernel(p) PROVE TtyInv'
  BY <1>5, TtySleep, GetcStep, PutcStep, Zenon DEF InKernel
<1>6. ASSUME NEW p \in Readers, NEW size \in Sizes, tty_call(p, "read", size) PROVE TtyInv'
  BY <1>6, CallStep, TtyAssumption, Zenon
<1>7. ASSUME NEW p \in Writers, NEW size \in Sizes, tty_call(p, "write", size) PROVE TtyInv'
  BY <1>7, CallStep, TtyAssumption, Zenon
<1>8. CASE UNCHANGED tty_vars
  <2>1. /\ rx' = rx /\ tx' = tx /\ rxim' = rxim /\ txim' = txim /\ running' = running
        /\ readq' = readq /\ writeq' = writeq /\ task' = task
        /\ op' = op /\ at' = at /\ left' = left /\ newline' = newline
    BY <1>8, Zenon DEF tty_vars, uart, queues, calls
  <2>2. UartOK' /\ QueuesOK' /\ CallsOK'
    BY <2>1, TypeParts, Zenon DEF TtyInv, UartOK, QueuesOK, CallsOK
  <2>3. Queued' /\ Called' /\ Runs'
    BY <2>1, Zenon DEF TtyInv, Queued, Called, Runs
  <2>4. SleepersWatched'
    BY <2>1, Zenon DEF TtyInv, SleepersWatched, Active
  <2> QED BY <2>2, <2>3, <2>4, TypeNext, Zenon DEF TtyInv
<1>9. Readers \cup Writers \subseteq Procs
  BY TtyAssumption, Zenon
<1> QED
  BY <1>1, <1>2, <1>3, <1>4, <1>5, <1>6, <1>7, <1>8, <1>9, Zenon DEF TtyNext

\* The FIFOs never overrun, also when a newline takes two characters, and no
\* sleeper is forgotten although each woken process masks its interrupt for
\* all (uart_write, tty_getc, tty_putc, tty_resume, wake_next).
THEOREM NobodyForgotten == TtySpec => []TtySound
<1>1. TtyInv => TtySound
  BY Zenon DEF TtyInv, TtySound
<1> QED
  BY <1>1, TtyInitInv, TtyNextInv, PTL DEF TtySpec
=============================================================================
