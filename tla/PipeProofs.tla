----------------------------- MODULE PipeProofs ------------------------------
(***************************************************************************)
(* Proofs about module Pipe, for every size of the page, every number of   *)
(* processes and every size of reads and writes: no SYSTEM_BUG_ON fires    *)
(* but the one a read of size 0 meets, the counts of ends are right,       *)
(* nobody sleeps in vain, and the ring buffer implements a FIFO channel.   *)
(*                                                                         *)
(* First the ends of the pipe as a set whose cardinality the counts are,   *)
(* the arithmetic of the ring, the wait queues, and one lemma per part of  *)
(* the inductive invariant with one step per action.                       *)
(***************************************************************************)
EXTENDS Pipe, FiniteSetTheorems, SequenceTheorems, TLAPS

-----------------------------------------------------------------------------
(* Descriptors as a set, whose cardinality counts them *)

\* The k-th descriptor of process p, for all p and k.
Ends(fds) == {x \in Procs \X (Nat \ {0}) : x[2] <= fds[x[1]]}

\* n descriptors in all.
Counts(n, fds) == IsFiniteSet(Ends(fds)) /\ n = Cardinality(Ends(fds))

\* dup, or the descriptors of a new pipe: one more.
LEMMA CountUp ==
    ASSUME NEW n, NEW fds \in [Procs -> Nat], NEW p \in Procs, Counts(n, fds)
    PROVE  Counts(n + 1, [fds EXCEPT ![p] = @ + 1])
<1> DEFINE x == <<p, fds[p] + 1>>
<1>1. Ends([fds EXCEPT ![p] = @ + 1]) = Ends(fds) \cup {x}
  BY DEF Ends
<1>2. x \notin Ends(fds)
  BY DEF Ends
<1>3. IsFiniteSet(Ends(fds))
  BY Zenon DEF Counts
<1> HIDE DEF x
<1>4. /\ IsFiniteSet(Ends(fds) \cup {x})
      /\ Cardinality(Ends(fds) \cup {x})
           = IF x \in Ends(fds) THEN Cardinality(Ends(fds)) ELSE Cardinality(Ends(fds)) + 1
  BY <1>3, FS_AddElement, Zenon
<1> QED
  BY <1>1, <1>2, <1>4, Zenon DEF Counts

\* close: one less.
LEMMA CountDown ==
    ASSUME NEW n, NEW fds \in [Procs -> Nat], NEW p \in Procs, fds[p] > 0, Counts(n, fds)
    PROVE  Counts(n - 1, [fds EXCEPT ![p] = @ - 1])
<1> DEFINE x == <<p, fds[p]>>
<1>1. Ends([fds EXCEPT ![p] = @ - 1]) = Ends(fds) \ {x}
  BY DEF Ends
<1>2. x \in Ends(fds)
  BY DEF Ends
<1> QED
  BY <1>1, <1>2, FS_RemoveElement, ZenonT(60) DEF Counts

\* fork: the child has as many as its parent.
LEMMA CountFork ==
    ASSUME NEW n, NEW fds \in [Procs -> Nat], NEW c \in Procs, NEW m \in Nat,
           fds[c] = 0, Counts(n, fds)
    PROVE  Counts(n + m, [fds EXCEPT ![c] = m])
<1> DEFINE new == {c} \X (1..m)
<1>1. Ends([fds EXCEPT ![c] = m]) = Ends(fds) \cup new
  BY DEF Ends
<1>2. Ends(fds) \cap new = {}
  BY DEF Ends
<1>3. IsFiniteSet(1..m) /\ Cardinality(1..m) = m
  <2>1. 1 \in Int /\ m \in Int
    OBVIOUS
  <2>2. IsFiniteSet(1..m) /\ Cardinality(1..m) = IF 1 > m THEN 0 ELSE m - 1 + 1
    BY <2>1, FS_Interval, Zenon
  <2> QED
    BY <2>2
<1>4. IsFiniteSet({c}) /\ Cardinality({c}) = 1
  BY FS_Singleton, Zenon
<1>5. IsFiniteSet(new) /\ Cardinality(new) = m
  <2>1. IsFiniteSet(new) /\ Cardinality(new) = Cardinality({c}) * Cardinality(1..m)
    BY <1>3, <1>4, FS_Product, Zenon
  <2> QED
    BY <1>3, <1>4, <2>1
<1>6. IsFiniteSet(Ends(fds)) /\ Cardinality(Ends(fds)) \in Nat
  BY FS_CardinalityType, Zenon DEF Counts
<1> HIDE DEF new
<1>7. /\ IsFiniteSet(Ends(fds) \cup new)
      /\ Cardinality(Ends(fds) \cup new)
           = Cardinality(Ends(fds)) + Cardinality(new) - Cardinality(Ends(fds) \cap new)
  BY <1>5, <1>6, FS_Union, Zenon
<1>8. Cardinality(Ends(fds) \cap new) = 0
  BY <1>2, FS_EmptySet, Zenon
<1>9. Cardinality(Ends(fds) \cup new) = Cardinality(Ends(fds)) + m
  BY <1>5, <1>6, <1>7, <1>8
<1>10. n = Cardinality(Ends(fds))
  BY Zenon DEF Counts
<1> QED
  BY <1>1, <1>7, <1>9, <1>10, Zenon DEF Counts

\* The count is 0 exactly when nobody has a descriptor.
LEMMA CountZero ==
    ASSUME NEW n, NEW fds \in [Procs -> Nat], Counts(n, fds)
    PROVE  n \in Nat /\ (n = 0 <=> \A p \in Procs : fds[p] = 0)
<1>1. n \in Nat
  BY FS_CardinalityType, Zenon DEF Counts
<1>2. n = 0 <=> Ends(fds) = {}
  BY FS_EmptySet, Zenon DEF Counts
<1>3. ASSUME NEW p \in Procs, fds[p] # 0
      PROVE  <<p, 1>> \in Ends(fds)
  BY <1>3 DEF Ends
<1>4. (\A p \in Procs : fds[p] = 0) => Ends(fds) = {}
  BY DEF Ends
<1> QED
  BY <1>1, <1>2, <1>3, <1>4, Zenon

-----------------------------------------------------------------------------
(* The ring *)

\* Indices of the ring wrap around at most once.
LEMMA Wrap ==
    ASSUME NEW a \in 0..(2 * PAGE_SIZE - 1)
    PROVE  a % PAGE_SIZE = IF a < PAGE_SIZE THEN a ELSE a - PAGE_SIZE
<1>1. PAGE_SIZE \in Nat \ {0}
  BY PipeAssumption, Zenon
<1>2. CASE a < PAGE_SIZE
  BY <1>1, <1>2
<1>3. CASE a >= PAGE_SIZE
  BY <1>1, <1>3
<1> QED
  BY <1>1, <1>2, <1>3

\* What a read copies is there, and lies between offset and the end of the page.
LEMMA ReadLength ==
    ASSUME TypeOK, length # 0, NEW size \in Nat
    PROVE  /\ read_length(size) \in 0..length
           /\ read_length(size) <= size
           /\ offset + read_length(size) <= PAGE_SIZE
           /\ read_length(size) = 0 => size = 0
<1>1. PAGE_SIZE \in Nat \ {0}
  BY PipeAssumption, Zenon
<1>2. (offset + length) % PAGE_SIZE
        = IF offset + length < PAGE_SIZE THEN offset + length ELSE offset + length - PAGE_SIZE
  <2> DEFINE sum == offset + length
  <2>1. sum \in 0..(2 * PAGE_SIZE - 1)
    BY <1>1 DEF TypeOK
  <2> HIDE DEF sum
  <2>2. sum % PAGE_SIZE = IF sum < PAGE_SIZE THEN sum ELSE sum - PAGE_SIZE
    BY <2>1, Wrap, Zenon
  <2> QED
    BY <1>1, <2>2 DEF sum, TypeOK
<1> DEFINE start == (offset + length) % PAGE_SIZE
           remaining == IF start > offset THEN start - offset ELSE PAGE_SIZE - offset
<1>3. read_length(size) = IF remaining < size THEN remaining ELSE size
  BY Zenon DEF read_length, Lesser
<1>4. /\ remaining \in 1..length
      /\ offset + remaining <= PAGE_SIZE
  <2> HIDE DEF start
  <2>1. start = IF offset + length < PAGE_SIZE THEN offset + length ELSE offset + length - PAGE_SIZE
    BY <1>2, Zenon DEF start
  <2> QED
    BY <1>1, <2>1 DEF TypeOK
<1> HIDE DEF remaining
<1> QED
  BY <1>1, <1>3, <1>4 DEF TypeOK

\* What a write copies fits between the end of the contents and the next edge:
\* the end of the page, or the first unread byte.
LEMMA WriteLength ==
    ASSUME TypeOK, length # PAGE_SIZE, NEW size \in Nat
    PROVE  /\ write_start = IF offset + length < PAGE_SIZE THEN offset + length
                                                           ELSE offset + length - PAGE_SIZE
           /\ write_length(size) \in 0..(PAGE_SIZE - length)
           /\ write_length(size) <= size
           /\ write_start + write_length(size) <= PAGE_SIZE
           /\ write_start < offset => write_start + write_length(size) <= offset
<1>1. PAGE_SIZE \in Nat \ {0}
  BY PipeAssumption, Zenon
<1>2. write_start
        = IF offset + length < PAGE_SIZE THEN offset + length ELSE offset + length - PAGE_SIZE
  <2> DEFINE sum == offset + length
  <2>1. sum \in 0..(2 * PAGE_SIZE - 1)
    BY <1>1 DEF TypeOK
  <2> HIDE DEF sum
  <2>2. sum % PAGE_SIZE = IF sum < PAGE_SIZE THEN sum ELSE sum - PAGE_SIZE
    BY <2>1, Wrap, Zenon
  <2> QED
    BY <1>1, <2>2 DEF sum, write_start, TypeOK
<1> QED
  BY <1>1, <1>2 DEF TypeOK, write_length, Lesser

-----------------------------------------------------------------------------
(* The ring buffer: what a read takes and a write adds *)

\* TypeOK in four parts.
FlagsOK == exists \in BOOLEAN /\ halted \in BOOLEAN
RingOK ==
    /\ page \in [0..(PAGE_SIZE - 1) -> Bytes]
    /\ offset \in 0..(PAGE_SIZE - 1)
    /\ length \in 0..PAGE_SIZE
EndsOK ==
    /\ readers \in Nat /\ writers \in Nat
    /\ rfds \in [Procs -> Nat] /\ wfds \in [Procs -> Nat]
CallsOK ==
    /\ op \in [Procs -> {"none", "read", "write"}]
    /\ running \in Procs \cup {NULL}
    /\ want \in [Procs -> Nat]
    /\ got \in [Procs -> Seq(Bytes)]
    /\ todo \in [Procs -> Seq(Bytes)]
    /\ sigpipe \subseteq Procs
QueuesOK ==
    /\ readers_waitq \in Seq(Procs) /\ writers_waitq \in Seq(Procs)
    /\ state \in [Procs -> {"READY", "BLOCKED"}]

LEMMA TypeParts == TypeOK <=> FlagsOK /\ RingOK /\ EndsOK /\ CallsOK /\ QueuesOK
  BY Zenon DEF TypeOK, FlagsOK, RingOK, EndsOK, CallsOK, QueuesOK


\* A function on 1..n is a sequence.
LEMMA IsSequence ==
    ASSUME NEW S, NEW n \in Nat, NEW f \in [1..n -> S]
    PROVE  f \in Seq(S)
  OBVIOUS

\* Where byte i of the contents lies.
LEMMA Index ==
    ASSUME RingOK, NEW i \in 1..PAGE_SIZE
    PROVE  (offset + i - 1) % PAGE_SIZE
             = IF offset + i - 1 < PAGE_SIZE THEN offset + i - 1 ELSE offset + i - 1 - PAGE_SIZE
<1>1. PAGE_SIZE \in Nat \ {0} /\ offset \in 0..(PAGE_SIZE - 1)
  BY PipeAssumption, Zenon DEF RingOK
<1> DEFINE sum == offset + i - 1
<1>2. sum \in 0..(2 * PAGE_SIZE - 1)
  BY <1>1
<1> HIDE DEF sum
<1>3. sum % PAGE_SIZE = IF sum < PAGE_SIZE THEN sum ELSE sum - PAGE_SIZE
  BY <1>2, Wrap, Zenon
<1> QED
  BY <1>1, <1>3 DEF sum

\* A read takes the first n bytes ...
LEMMA ReadContents ==
    ASSUME RingOK, RingOK', NEW n \in 1..length, offset + n <= PAGE_SIZE,
           page' = page, offset' = advance(n), length' = length - n
    PROVE  /\ SubSeq(Contents, 1, n) = [i \in 1..n |-> page[offset + i - 1]]
           /\ Contents' = SubSeq(Contents, n + 1, Len(Contents))
<1>0. /\ PAGE_SIZE \in Nat \ {0} /\ offset \in 0..(PAGE_SIZE - 1) /\ length \in 0..PAGE_SIZE
      /\ n \in Nat \ {0} /\ n <= length
  BY PipeAssumption DEF RingOK
<1>1. /\ Contents = [i \in 1..length |-> page[(offset + i - 1) % PAGE_SIZE]]
      /\ Len(Contents) = length
  BY <1>0 DEF Contents
<1>2. SubSeq(Contents, 1, n) = [i \in 1..n |-> Contents[i]]
  BY <1>0, <1>1
<1>3. ASSUME NEW i \in 1..n
      PROVE  Contents[i] = page[offset + i - 1]
  <2>1. i \in 1..PAGE_SIZE /\ i \in 1..length /\ offset + i - 1 < PAGE_SIZE
    BY <1>0
  <2>2. (offset + i - 1) % PAGE_SIZE = offset + i - 1
    BY <2>1, Index, Zenon
  <2> QED
    BY <1>1, <2>1, <2>2, Zenon
<1>4. advance(n) = IF offset + n < PAGE_SIZE THEN offset + n ELSE 0
  <2>1. CASE offset + n < PAGE_SIZE
    BY <1>0, <2>1 DEF advance
  <2>2. CASE offset + n = PAGE_SIZE
    BY <1>0, <2>2 DEF advance
  <2> QED
    BY <1>0, <2>1, <2>2
<1>5. SubSeq(Contents, n + 1, length) = [i \in 1..(length - n) |-> Contents[i + n]]
  BY <1>0, <1>1
<1>6. ASSUME NEW i \in 1..(length - n)
      PROVE  (offset' + i - 1) % PAGE_SIZE = (offset + (i + n) - 1) % PAGE_SIZE
  <2>1. i + n \in 1..PAGE_SIZE /\ i \in 1..PAGE_SIZE
    BY <1>0
  <2>2. (offset + (i + n) - 1) % PAGE_SIZE
          = IF offset + (i + n) - 1 < PAGE_SIZE THEN offset + (i + n) - 1
                                                ELSE offset + (i + n) - 1 - PAGE_SIZE
    BY <2>1, Index, Zenon
  <2>3. CASE offset + n < PAGE_SIZE
    <3>1. offset' = offset + n
      BY <1>4, <2>3, Zenon
    <3>2. offset' + i - 1 = offset + (i + n) - 1
      BY <1>0, <3>1
    <3> QED
      BY <3>2, Zenon
  <2>4. CASE offset + n = PAGE_SIZE
    <3>1. offset' = 0
      BY <1>0, <1>4, <2>4
    <3>2. (offset' + i - 1) % PAGE_SIZE = i - 1
      BY <1>0, <3>1
    <3>3. offset + (i + n) - 1 >= PAGE_SIZE /\ offset + (i + n) - 1 - PAGE_SIZE = i - 1
      BY <1>0, <2>4
    <3> QED
      BY <1>0, <2>2, <3>2, <3>3, SMTT(60)
  <2> QED
    BY <1>0, <2>3, <2>4
<1>7. Contents' = [i \in 1..(length - n) |-> page[(offset' + i - 1) % PAGE_SIZE]]
  BY Zenon DEF Contents
<1>8. ASSUME NEW i \in 1..(length - n)
      PROVE  Contents[i + n] = page[(offset' + i - 1) % PAGE_SIZE]
  <2>1. i + n \in 1..length
    BY <1>0
  <2> QED
    BY <1>1, <1>6, <2>1, Zenon
<1>9. Contents' = SubSeq(Contents, n + 1, length)
  BY <1>5, <1>7, <1>8, Zenon
<1> QED
  BY <1>1, <1>2, <1>3, <1>9, Zenon

\* ... and a write puts n bytes behind the last one.
LEMMA WriteContents ==
    ASSUME RingOK, RingOK', NEW data \in Seq(Bytes), NEW n \in 1..(PAGE_SIZE - length),
           n <= Len(data),
           write_start + n <= PAGE_SIZE, write_start < offset => write_start + n <= offset,
           write_start = IF offset + length < PAGE_SIZE THEN offset + length
                                                        ELSE offset + length - PAGE_SIZE,
           page' = [i \in 0..(PAGE_SIZE - 1) |->
                      IF i \in write_start..(write_start + n - 1)
                      THEN data[i - write_start + 1] ELSE page[i]],
           offset' = offset, length' = length + n
    PROVE  Contents' = Contents \o SubSeq(data, 1, n)
<1> DEFINE start == write_start
           at(i) == (offset + i - 1) % PAGE_SIZE
           more == SubSeq(data, 1, n)
<1>0. /\ PAGE_SIZE \in Nat \ {0} /\ offset \in 0..(PAGE_SIZE - 1) /\ length \in 0..PAGE_SIZE
      /\ n \in Nat \ {0} /\ length + n <= PAGE_SIZE
  BY PipeAssumption DEF RingOK
<1>1. start = IF offset + length < PAGE_SIZE THEN offset + length ELSE offset + length - PAGE_SIZE
  OBVIOUS
<1>2. start \in 0..(PAGE_SIZE - 1) /\ start + n <= PAGE_SIZE /\ (start < offset => start + n <= offset)
  BY <1>0, <1>1
<1>3. page' = [i \in 0..(PAGE_SIZE - 1) |->
                 IF i \in start..(start + n - 1) THEN data[i - start + 1] ELSE page[i]]
  OBVIOUS
<1> HIDE DEF start
<1>4. \A i \in 1..PAGE_SIZE :
         at(i) = IF offset + i - 1 < PAGE_SIZE THEN offset + i - 1 ELSE offset + i - 1 - PAGE_SIZE
  BY Index, Zenon
<1>5. /\ Contents = [i \in 1..length |-> page[at(i)]] /\ Len(Contents) = length
      /\ Contents' = [i \in 1..(length + n) |-> page'[at(i)]]
  BY <1>0 DEF Contents
<1>6. more = [i \in 1..n |-> data[i]] /\ Len(more) = n
  BY <1>0
<1> HIDE DEF at, more
<1>7. ASSUME NEW i \in 1..length
      PROVE  page'[at(i)] = page[at(i)]
  <2>1. i \in 1..PAGE_SIZE
    BY <1>0
  <2>2. at(i) = IF offset + i - 1 < PAGE_SIZE THEN offset + i - 1 ELSE offset + i - 1 - PAGE_SIZE
    BY <1>4, <2>1, Zenon
  <2>3. at(i) \in 0..(PAGE_SIZE - 1) /\ at(i) \notin start..(start + n - 1)
    BY <1>0, <1>1, <1>2, <2>1, <2>2, SMTT(60)
  <2> QED
    BY <1>3, <2>3, ZenonT(60)
<1>8. ASSUME NEW i \in 1..n
      PROVE  page'[at(length + i)] = data[i]
  <2>1. length + i \in 1..PAGE_SIZE /\ offset + (length + i) - 1 = offset + length + i - 1
    BY <1>0
  <2>2. at(length + i)
          = IF offset + (length + i) - 1 < PAGE_SIZE THEN offset + (length + i) - 1
                                                     ELSE offset + (length + i) - 1 - PAGE_SIZE
    BY <1>4, <2>1, ZenonT(60)
  <2>3. at(length + i) = start + i - 1
    BY <1>0, <1>1, <1>2, <2>2, SMTT(60)
  <2>4. /\ start + i - 1 \in 0..(PAGE_SIZE - 1) /\ start + i - 1 \in start..(start + n - 1)
        /\ (start + i - 1) - start + 1 = i
    BY <1>0, <1>2
  <2> QED
    BY <1>3, <2>3, <2>4, ZenonT(60)
<1>9. Contents \in Seq(Bytes) /\ more \in Seq(Bytes)
  <2>1. ASSUME NEW i \in 1..length PROVE at(i) \in 0..(PAGE_SIZE - 1)
    <3>1. i \in 1..PAGE_SIZE
      BY <1>0
    <3>2. at(i) = IF offset + i - 1 < PAGE_SIZE THEN offset + i - 1 ELSE offset + i - 1 - PAGE_SIZE
      BY <1>4, <3>1, Zenon
    <3> QED
      BY <1>0, <3>1, <3>2, SMTT(60)
  <2>2. \A i \in 1..length : page[at(i)] \in Bytes
    BY <2>1, Zenon DEF RingOK
  <2>3. Contents \in Seq(Bytes)
    <3>1. length \in Nat
      BY <1>0
    <3>2. Contents \in [1..length -> Bytes]
      BY <1>5, <2>2, Zenon
    <3> QED
      BY <3>1, <3>2, IsSequence, Zenon
  <2>4. more \in Seq(Bytes)
    BY <1>0 DEF more
  <2> QED
    BY <2>3, <2>4, Zenon
<1>10. /\ Contents \o more \in Seq(Bytes)
       /\ Len(Contents \o more) = length + n
       /\ \A i \in 1..(length + n) :
             (Contents \o more)[i] = IF i <= length THEN Contents[i] ELSE more[i - length]
  <2>1. /\ Contents \o more \in Seq(Bytes)
        /\ Len(Contents \o more) = Len(Contents) + Len(more)
        /\ \A i \in 1..(Len(Contents) + Len(more)) :
              (Contents \o more)[i] = IF i <= Len(Contents) THEN Contents[i]
                                                            ELSE more[i - Len(Contents)]
    BY <1>9, ConcatProperties, Zenon
  <2> HIDE DEF more
  <2>2. Len(Contents) = length /\ Len(more) = n
    BY <1>5, <1>6, Zenon
  <2> QED
    BY <2>1, <2>2, Zenon
<1>11. ASSUME NEW i \in 1..(length + n)
       PROVE  page'[at(i)] = (Contents \o more)[i]
  <2>1. CASE i \in 1..length
    <3>1. i \in 1..length /\ i <= length
      BY <1>0, <2>1, SMTT(60)
    <3>2. page'[at(i)] = page[at(i)]
      BY <1>7, <3>1, Zenon
    <3>3. Contents[i] = page[at(i)]
      BY <1>5, <3>1, ZenonT(60)
    <3> QED
      BY <1>10, <3>1, <3>2, <3>3, ZenonT(60)
  <2>2. CASE i \notin 1..length
    <3>1. i - length \in 1..n /\ length + (i - length) = i /\ ~(i <= length)
      BY <1>0, <2>2
    <3>2. page'[at(length + (i - length))] = data[i - length]
      BY <1>8, <3>1, Zenon
    <3>3. more[i - length] = data[i - length]
      BY <1>6, <3>1, Zenon
    <3>4. (Contents \o more)[i] = more[i - length]
      BY <1>10, <3>1, Zenon
    <3> QED
      BY <3>1, <3>2, <3>3, <3>4, ZenonT(60)
  <2> QED
    BY <2>1, <2>2, Zenon
<1>12. Contents \o more = [i \in 1..(length + n) |-> (Contents \o more)[i]]
  <2> DEFINE all == Contents \o more
  <2>1. all \in Seq(Bytes) /\ Len(all) = length + n
    BY <1>10, Zenon
  <2> HIDE DEF all
  <2>2. all = [i \in 1..(length + n) |-> all[i]]
    BY <2>1
  <2> QED
    BY <2>2, Zenon DEF all
<1>13. [i \in 1..(length + n) |-> page'[at(i)]] = [i \in 1..(length + n) |-> (Contents \o more)[i]]
  BY <1>11, Zenon
<1>14. Contents' = Contents \o more
  BY <1>5, <1>12, <1>13, Zenon
<1> QED
  BY <1>14, Zenon DEF more

\* The contents are a sequence of bytes of the ring's length.
LEMMA ContentsType == RingOK => Contents \in Seq(Bytes) /\ Len(Contents) = length
<1> SUFFICES ASSUME RingOK PROVE Contents \in Seq(Bytes) /\ Len(Contents) = length
  OBVIOUS
<1>1. PAGE_SIZE \in Nat \ {0} /\ offset \in 0..(PAGE_SIZE - 1) /\ length \in 0..PAGE_SIZE
  BY PipeAssumption, Zenon DEF RingOK
<1>2. \A i \in 1..length : (offset + i - 1) % PAGE_SIZE \in 0..(PAGE_SIZE - 1)
  BY <1>1
<1>3. \A i \in 1..length : page[(offset + i - 1) % PAGE_SIZE] \in Bytes
  BY <1>2, Zenon DEF RingOK
<1> QED
  BY <1>1, <1>3 DEF Contents

-----------------------------------------------------------------------------
(* The inductive invariant *)

\* The counts are the descriptors processes have, and the pipe exists as long
\* as there are any.
Counted ==
    /\ Counts(readers, rfds) /\ Counts(writers, wfds)
    /\ exists <=> readers + writers > 0

\* A process in a call has a descriptor of the end it uses.
CallsOpen ==
    \A p \in Procs :
        /\ op[p] = "read" => p \in Readers /\ rfds[p] > 0
        /\ op[p] = "write" => wfds[p] > 0
        /\ op[p] # "write" => todo[p] = <<>>

\* The wait queue q of a call holds processes that sleep in it, each once.
Asleep(q, call, states, ops) ==
    /\ \A i \in 1..Len(q) : states[q[i]] = "BLOCKED" /\ ops[q[i]] = call
    /\ \A i, j \in 1..Len(q) : q[i] = q[j] => i = j

\* Both queues are like that, and who runs, in the kernel or not, is READY.
Queued ==
    /\ Asleep(readers_waitq, "read", state, op) /\ Asleep(writers_waitq, "write", state, op)
    /\ running # NULL => state[running] = "READY"
    /\ \A p \in Procs : op[p] = "none" => state[p] = "READY"

IInv == OneBugOnly /\ Counted /\ CallsOpen /\ Queued /\ SleepersHavePeers

\* Where there is a descriptor, its end is counted and the pipe is there.
LEMMA Held ==
    ASSUME TypeOK, Counted, NEW p \in Procs
    PROVE  /\ rfds[p] > 0 => readers > 0 /\ exists
           /\ wfds[p] > 0 => writers > 0 /\ exists
<1>1. rfds \in [Procs -> Nat] /\ wfds \in [Procs -> Nat]
  BY Zenon DEF TypeOK
<1>2. readers \in Nat /\ (readers = 0 <=> \A r \in Procs : rfds[r] = 0)
  BY <1>1, CountZero, Zenon DEF Counted
<1>3. writers \in Nat /\ (writers = 0 <=> \A r \in Procs : wfds[r] = 0)
  BY <1>1, CountZero, Zenon DEF Counted
<1> QED
  BY <1>1, <1>2, <1>3 DEF Counted

\* Initially there is no pipe.
LEMMA InitInv == Init => IInv
<1> SUFFICES ASSUME Init PROVE IInv
  OBVIOUS
<1>1. TypeOK
  <2>1. FlagsOK
    BY Zenon DEF Init, FlagsOK
  <2>2. RingOK
    <3>1. (CHOOSE b \in Bytes : TRUE) \in Bytes
      BY PipeAssumption, Zenon
    <3> QED
      BY <3>1, PipeAssumption DEF Init, RingOK
  <2>3. EndsOK
    BY Zenon DEF Init, EndsOK
  <2>4. CallsOK /\ QueuesOK
    BY DEF Init, CallsOK, QueuesOK
  <2> QED
    BY <2>1, <2>2, <2>3, <2>4, TypeParts, Zenon
<1>2. Ends(rfds) = {} /\ Ends(wfds) = {}
  BY DEF Init, Ends
<1>3. Counted
  <2>1. Counts(readers, rfds) /\ Counts(writers, wfds)
    BY <1>2, FS_EmptySet, Zenon DEF Init, Counts
  <2>2. ~(readers + writers > 0)
    BY DEF Init
  <2> QED
    BY <2>1, <2>2, Zenon DEF Init, Counted
<1>4. OneBugOnly
  BY <1>1, Zenon DEF Init, OneBugOnly
<1>5. CallsOpen /\ Queued /\ SleepersHavePeers
  BY DEF Init, CallsOpen, Queued, Asleep, SleepersHavePeers
<1> QED
  BY <1>3, <1>4, <1>5, Zenon DEF IInv

\* exists and halted stay Boolean.
LEMMA FlagsStep == FlagsOK /\ Next => FlagsOK'
<1> SUFFICES ASSUME FlagsOK, Next PROVE FlagsOK'
  OBVIOUS
<1> USE DEF FlagsOK
<1>1. ASSUME NEW p \in Procs, pipe_create(p)
      PROVE  FlagsOK'
  BY <1>1, Zenon DEF pipe_create
<1>2. ASSUME NEW p \in Procs, pipe_release_reader(p)
      PROVE  FlagsOK'
  BY <1>2, Zenon DEF pipe_release_reader
<1>3. ASSUME NEW p \in Procs, pipe_release_writer(p)
      PROVE  FlagsOK'
  BY <1>3, Zenon DEF pipe_release_writer
<1>4. ASSUME NEW p \in Procs, pipe_read_copy(p)
      PROVE  FlagsOK'
  <2>1. exists' = exists
    BY <1>4, Zenon DEF pipe_read_copy
  <2>2. halted' = TRUE \/ halted' = halted
    BY <1>4, Zenon DEF pipe_read_copy
  <2> QED
    BY <2>1, <2>2, Zenon
<1>5. ASSUME NEW p \in Procs, pipe_write_copy(p)
      PROVE  FlagsOK'
  <2>1. exists' = exists /\ halted' = (length + write_length(Len(todo[p])) > PAGE_SIZE)
    BY <1>5, Zenon DEF pipe_write_copy
  <2>2. (length + write_length(Len(todo[p])) > PAGE_SIZE) \in BOOLEAN
    OBVIOUS
  <2> QED
    BY <2>1, <2>2, Zenon
<1>6. CASE UNCHANGED <<exists, halted>>
  BY <1>6, Zenon
<1> QED
  BY <1>1, <1>2, <1>3, <1>4, <1>5, <1>6, PipeAssumption, Zenon
     DEF Next, InKernel, pipe_read, pipe_write, pipe_countup_dup, pipe_countup_fork, process_resume,
         pipe_read_eof, pipe_read_sleep, pipe_write_broken, pipe_write_sleep, syscall_read,
         syscall_write, pipe

\* The page keeps its bytes, offset and length their ranges.
LEMMA RingStep ==
    ASSUME TypeOK, Next
    PROVE  RingOK'
<1> USE PipeAssumption
<1>0. RingOK /\ CallsOK
  BY TypeParts, Zenon
<1>1. ASSUME NEW p \in Procs, pipe_create(p)
      PROVE  RingOK'
  BY <1>0, <1>1 DEF pipe_create, RingOK
<1>2. ASSUME NEW p \in Procs, pipe_read_copy(p)
      PROVE  RingOK'
  <2> DEFINE n == read_length(want[p])
  <2>1. want[p] \in Nat
    BY <1>0, Zenon DEF CallsOK
  <2>2. length # 0 /\ page' = page /\ offset' = advance(n) /\ length' = length - n
    BY <1>2, Zenon DEF pipe_read_copy
  <2>3. n \in 0..length /\ offset + n <= PAGE_SIZE
    BY <2>1, <2>2, ReadLength, Zenon
  <2> HIDE DEF n
  <2>4. advance(n) \in 0..(PAGE_SIZE - 1)
    BY <1>0, <2>3 DEF advance, RingOK
  <2> QED
    BY <1>0, <2>2, <2>3, <2>4 DEF RingOK
<1>3. ASSUME NEW p \in Procs, pipe_write_copy(p)
      PROVE  RingOK'
  <2> DEFINE n == write_length(Len(todo[p]))
  <2>1. todo[p] \in Seq(Bytes) /\ Len(todo[p]) \in Nat
    BY <1>0 DEF CallsOK
  <2>2. /\ length # PAGE_SIZE /\ offset' = offset /\ length' = length + n
        /\ page' = [i \in 0..(PAGE_SIZE - 1) |->
                      IF i \in write_start..(write_start + n - 1)
                      THEN todo[p][i - write_start + 1] ELSE page[i]]
    BY <1>3, Zenon DEF pipe_write_copy
  <2>3. n \in 0..(PAGE_SIZE - length) /\ n <= Len(todo[p])
    BY <2>1, <2>2, WriteLength, Zenon
  <2>6. write_start \in Nat
    BY <1>0 DEF write_start, RingOK
  <2> HIDE DEF n
  <2>4. ASSUME NEW i \in 0..(PAGE_SIZE - 1), i \in write_start..(write_start + n - 1)
        PROVE  todo[p][i - write_start + 1] \in Bytes
    BY <2>1, <2>3, <2>4, <2>6
  <2>5. page' \in [0..(PAGE_SIZE - 1) -> Bytes]
    BY <1>0, <2>2, <2>4, Zenon DEF RingOK
  <2> QED
    BY <1>0, <2>2, <2>3, <2>5 DEF RingOK
<1>4. CASE UNCHANGED <<page, offset, length>>
  BY <1>0, <1>4, Zenon DEF RingOK
<1> QED
  BY <1>1, <1>2, <1>3, <1>4, Zenon
     DEF Next, InKernel, pipe_read, pipe_write, pipe_countup_dup, pipe_countup_fork,
         pipe_release_reader, pipe_release_writer, process_resume, pipe_read_eof, pipe_read_sleep,
         pipe_write_broken, pipe_write_sleep, syscall_read, syscall_write, pipe

\* The counts of ends stay natural numbers: only a descriptor that is there is
\* closed.
LEMMA EndsStep ==
    ASSUME TypeOK, Counted, Next
    PROVE  EndsOK'
<1>0. EndsOK
  BY TypeParts, Zenon
<1>1. ASSUME NEW p \in Procs, pipe_create(p)
      PROVE  EndsOK'
  BY <1>0, <1>1, Zenon DEF pipe_create, EndsOK
<1>2. ASSUME NEW p \in Procs, pipe_countup_dup(p)
      PROVE  EndsOK'
  BY <1>0, <1>2 DEF pipe_countup_dup, EndsOK
<1>3. ASSUME NEW p \in Procs, NEW c \in Procs, pipe_countup_fork(p, c)
      PROVE  EndsOK'
  BY <1>0, <1>3 DEF pipe_countup_fork, EndsOK
<1>4. ASSUME NEW p \in Procs, pipe_release_reader(p)
      PROVE  EndsOK'
  <2>1. rfds[p] > 0 /\ rfds' = [rfds EXCEPT ![p] = @ - 1] /\ readers' = readers - 1
        /\ writers' = writers /\ wfds' = wfds
    BY <1>4, Zenon DEF pipe_release_reader
  <2>2. readers > 0
    BY <2>1, Held, Zenon
  <2> QED
    BY <1>0, <2>1, <2>2 DEF EndsOK
<1>5. ASSUME NEW p \in Procs, pipe_release_writer(p)
      PROVE  EndsOK'
  <2>1. wfds[p] > 0 /\ wfds' = [wfds EXCEPT ![p] = @ - 1] /\ writers' = writers - 1
        /\ readers' = readers /\ rfds' = rfds
    BY <1>5, Zenon DEF pipe_release_writer
  <2>2. writers > 0
    BY <2>1, Held, Zenon
  <2> QED
    BY <1>0, <2>1, <2>2 DEF EndsOK
<1>6. CASE UNCHANGED ends
  BY <1>0, <1>6, Zenon DEF EndsOK, ends
<1> QED
  BY <1>1, <1>2, <1>3, <1>4, <1>5, <1>6, Zenon
     DEF Next, InKernel, pipe_read, pipe_write, process_resume, pipe_read_eof, pipe_read_sleep,
         pipe_read_copy, pipe_write_broken, pipe_write_sleep, pipe_write_copy, syscall_read, syscall_write

\* What calls keep on the kernel stack and in the user's buffers.
LEMMA CallsStep ==
    ASSUME TypeOK, Next
    PROVE  CallsOK'
<1> USE PipeAssumption
<1>0. RingOK /\ CallsOK
  BY TypeParts, Zenon
<1>1. ASSUME NEW p \in Readers, NEW size \in ReadSizes, syscall_read(p, size)
      PROVE  CallsOK'
  <2>1. size \in Nat /\ p \in Procs /\ <<>> \in Seq(Bytes)
    OBVIOUS
  <2> QED
    BY <1>0, <1>1, <2>1, Zenon DEF syscall_read, CallsOK
<1>2. ASSUME NEW p \in Writers, NEW size \in WriteSizes, NEW data \in [1..size -> Bytes],
             syscall_write(p, data)
      PROVE  CallsOK'
  <2>1. data \in Seq(Bytes)
    OBVIOUS
  <2> QED
    BY <1>0, <1>2, <2>1, Zenon DEF syscall_write, CallsOK
<1>3. ASSUME NEW p \in Procs, process_resume(p)
      PROVE  CallsOK'
  BY <1>0, <1>3, Zenon DEF process_resume, calls, CallsOK
<1>4. ASSUME NEW p \in Procs, pipe_read_eof(p)
      PROVE  CallsOK'
  BY <1>0, <1>4, Zenon DEF pipe_read_eof, CallsOK
<1>5. ASSUME NEW p \in Procs, pipe_read_sleep(p) \/ pipe_write_sleep(p)
      PROVE  CallsOK'
  BY <1>0, <1>5, Zenon DEF pipe_read_sleep, pipe_write_sleep, calls, CallsOK
<1>6. ASSUME NEW p \in Procs, pipe_read_copy(p)
      PROVE  CallsOK'
  <2> DEFINE n == read_length(want[p])
             copied == [i \in 1..n |-> page[offset + i - 1]]
  <2>1. want[p] \in Nat /\ length # 0
    BY <1>0, <1>6, Zenon DEF CallsOK, pipe_read_copy
  <2>2. n \in 0..length /\ n <= want[p] /\ offset + n <= PAGE_SIZE
    BY <2>1, ReadLength, Zenon
  <2>3. /\ got' = [got EXCEPT ![p] = @ \o copied]
        /\ want' = [want EXCEPT ![p] = IF length - n = 0 THEN 0 ELSE @ - n]
        /\ todo' = todo /\ sigpipe' = sigpipe
        /\ op' = op \/ op' = [op EXCEPT ![p] = "none"]
        /\ running' = running \/ running' = NULL
    BY <1>6, Zenon DEF pipe_read_copy
  <2> HIDE DEF n
  <2>4. copied \in Seq(Bytes)
    BY <1>0, <2>2 DEF RingOK
  <2> HIDE DEF copied
  <2>5. got[p] \o copied \in Seq(Bytes)
    BY <1>0, <2>4 DEF CallsOK
  <2>6. got' \in [Procs -> Seq(Bytes)]
    BY <1>0, <2>3, <2>5, Zenon DEF CallsOK
  <2>7. want' \in [Procs -> Nat]
    BY <1>0, <2>2, <2>3 DEF CallsOK
  <2> QED
    BY <1>0, <2>3, <2>6, <2>7, Zenon DEF CallsOK
<1>7. ASSUME NEW p \in Procs, pipe_write_broken(p)
      PROVE  CallsOK'
  BY <1>0, <1>7 DEF pipe_write_broken, CallsOK
<1>8. ASSUME NEW p \in Procs, pipe_write_copy(p)
      PROVE  CallsOK'
  <2> DEFINE n == write_length(Len(todo[p]))
  <2>1. todo[p] \in Seq(Bytes) /\ Len(todo[p]) \in Nat /\ length # PAGE_SIZE
    BY <1>0, <1>8 DEF CallsOK, pipe_write_copy
  <2>2. n \in 0..(PAGE_SIZE - length) /\ n <= Len(todo[p])
    BY <2>1, WriteLength, ZenonT(60)
  <2>3. /\ todo' = [todo EXCEPT ![p] = SubSeq(@, n + 1, Len(@))]
        /\ want' = want /\ got' = got /\ sigpipe' = sigpipe
        /\ op' = op \/ op' = [op EXCEPT ![p] = "none"]
        /\ running' = running \/ running' = NULL
    BY <1>8, Zenon DEF pipe_write_copy
  <2> HIDE DEF n
  <2>4. SubSeq(todo[p], n + 1, Len(todo[p])) \in Seq(Bytes)
    BY <1>0, <2>1, <2>2 DEF RingOK
  <2>5. todo' \in [Procs -> Seq(Bytes)]
    BY <1>0, <2>3, <2>4, Zenon DEF CallsOK
  <2> QED
    BY <1>0, <2>3, <2>5, Zenon DEF CallsOK
<1>9. ASSUME NEW p \in Procs, pipe_create(p)
      PROVE  CallsOK'
  BY <1>0, <1>9, Zenon DEF pipe_create, calls, CallsOK
<1>10. CASE UNCHANGED <<calls, running, sigpipe>>
  BY <1>0, <1>10, Zenon DEF CallsOK, calls
<1> QED
  BY <1>1, <1>2, <1>3, <1>4, <1>5, <1>6, <1>7, <1>8, <1>9, <1>10, ZenonT(60)
     DEF Next, InKernel, pipe_read, pipe_write, pipe_countup_dup, pipe_countup_fork,
         pipe_release_reader, pipe_release_writer

\* The wait queues stay sequences of processes.
LEMMA QueuesStep ==
    ASSUME TypeOK, Next
    PROVE  QueuesOK'
<1> USE PipeAssumption
<1>0. QueuesOK
  BY TypeParts, Zenon
<1>1. ASSUME NEW p \in Procs, pipe_create(p)
      PROVE  QueuesOK'
  BY <1>0, <1>1 DEF pipe_create, QueuesOK
<1>2. ASSUME NEW p \in Procs, pipe_release_reader(p)
      PROVE  QueuesOK'
  BY <1>0, <1>2 DEF pipe_release_reader, left_asleep, wake_all_but, QueuesOK
<1>3. ASSUME NEW p \in Procs, pipe_release_writer(p)
      PROVE  QueuesOK'
  BY <1>0, <1>3 DEF pipe_release_writer, left_asleep, wake_all_but, QueuesOK
<1>4. ASSUME NEW p \in Procs, pipe_read_sleep(p)
      PROVE  QueuesOK'
  <2>1. <<p>> \o readers_waitq \in Seq(Procs)
    BY <1>0 DEF QueuesOK
  <2> QED
    BY <1>0, <1>4, <2>1, Zenon DEF pipe_read_sleep, QueuesOK
<1>5. ASSUME NEW p \in Procs, pipe_write_sleep(p)
      PROVE  QueuesOK'
  <2>1. <<p>> \o writers_waitq \in Seq(Procs)
    BY <1>0 DEF QueuesOK
  <2> QED
    BY <1>0, <1>5, <2>1, Zenon DEF pipe_write_sleep, QueuesOK
<1>6. ASSUME NEW q \in Seq(Procs)
      PROVE  rest(q) \in Seq(Procs) /\ woken(q) \in [Procs -> {"READY", "BLOCKED"}]
  BY <1>0 DEF rest, woken, QueuesOK
<1>7. ASSUME NEW p \in Procs, pipe_read_copy(p)
      PROVE  QueuesOK'
  <2>1. /\ readers_waitq' = readers_waitq
        /\ \/ UNCHANGED <<state, writers_waitq>>
           \/ state' = woken(writers_waitq) /\ writers_waitq' = rest(writers_waitq)
    BY <1>7, Zenon DEF pipe_read_copy
  <2> QED
    BY <1>0, <1>6, <2>1, ZenonT(60) DEF QueuesOK
<1>8. ASSUME NEW p \in Procs, pipe_write_copy(p)
      PROVE  QueuesOK'
  <2>1. /\ writers_waitq' = writers_waitq
        /\ state' = woken(readers_waitq) /\ readers_waitq' = rest(readers_waitq)
    BY <1>8, Zenon DEF pipe_write_copy
  <2> QED
    BY <1>0, <1>6, <2>1, ZenonT(60) DEF QueuesOK
<1>9. CASE UNCHANGED queues
  BY <1>0, <1>9, Zenon DEF QueuesOK, queues
<1> QED
  BY <1>1, <1>2, <1>3, <1>4, <1>5, <1>7, <1>8, <1>9, ZenonT(60)
     DEF Next, InKernel, pipe_read, pipe_write, pipe_countup_dup, pipe_countup_fork, process_resume,
         pipe_read_eof, pipe_write_broken, syscall_read, syscall_write

\* Every step keeps the types, the ranges of offset and length among them.
LEMMA TypeStep ==
    ASSUME TypeOK, Counted, Next
    PROVE  TypeOK'
<1>1. FlagsOK'
  BY FlagsStep, TypeParts, Zenon
<1>2. RingOK' /\ EndsOK' /\ CallsOK' /\ QueuesOK'
  BY RingStep, EndsStep, CallsStep, QueuesStep, Zenon
<1>3. TypeOK' <=> FlagsOK' /\ RingOK' /\ EndsOK' /\ CallsOK' /\ QueuesOK'
  BY Zenon DEF TypeOK, FlagsOK, RingOK, EndsOK, CallsOK, QueuesOK
<1> QED
  BY <1>1, <1>2, <1>3, Zenon

\* Every countup has its release: the counts stay those of the descriptors.
LEMMA CountedStep ==
    ASSUME TypeOK, Counted, Next
    PROVE  Counted'
<1>0. EndsOK /\ FlagsOK
  BY TypeParts, Zenon
<1>1. ASSUME NEW p \in Procs, pipe_create(p)
      PROVE  Counted'
  <2>1. /\ ~exists /\ exists' = TRUE /\ readers' = 1 /\ writers' = 1
        /\ rfds' = [rfds EXCEPT ![p] = 1] /\ wfds' = [wfds EXCEPT ![p] = 1]
    BY <1>1, Zenon DEF pipe_create
  <2>2. rfds[p] = 0 /\ wfds[p] = 0
    BY <1>0, <2>1, Held DEF EndsOK
  <2>3. readers = 0 /\ writers = 0
    BY <1>0, <2>1 DEF Counted, EndsOK
  <2>4. /\ rfds' = [rfds EXCEPT ![p] = @ + 1] /\ readers' = readers + 1
        /\ wfds' = [wfds EXCEPT ![p] = @ + 1] /\ writers' = writers + 1
    BY <1>0, <2>1, <2>2, <2>3 DEF EndsOK
  <2>5. Counts(readers', rfds') /\ Counts(writers', wfds')
    BY <1>0, <2>4, CountUp, Zenon DEF Counted, EndsOK
  <2>6. exists' /\ readers' + writers' > 0
    BY <2>1
  <2> QED
    BY <2>5, <2>6, Zenon DEF Counted, Counts, Ends
<1>2. ASSUME NEW p \in Procs, pipe_countup_dup(p)
      PROVE  Counted'
  <2>1. /\ exists' = exists
        /\ \/ /\ rfds[p] > 0 /\ rfds' = [rfds EXCEPT ![p] = @ + 1] /\ readers' = readers + 1
              /\ writers' = writers /\ wfds' = wfds
           \/ /\ wfds[p] > 0 /\ wfds' = [wfds EXCEPT ![p] = @ + 1] /\ writers' = writers + 1
              /\ readers' = readers /\ rfds' = rfds
    BY <1>0, <1>2, PipeAssumption DEF pipe_countup_dup, pipe, EndsOK
  <2>2. Counts(readers', rfds') /\ Counts(writers', wfds')
    BY <1>0, <2>1, CountUp DEF Counted, EndsOK
  <2>3. exists /\ readers' + writers' > 0
    BY <1>0, <2>1, Held DEF EndsOK
  <2> QED
    BY <2>1, <2>2, <2>3, Zenon DEF Counted, Counts, Ends
<1>3. ASSUME NEW p \in Procs, NEW c \in Procs, pipe_countup_fork(p, c)
      PROVE  Counted'
  <2>1. /\ exists' = exists /\ rfds[p] + wfds[p] > 0
        /\ rfds[c] = 0 /\ wfds[c] = 0
        /\ rfds' = [rfds EXCEPT ![c] = rfds[p]] /\ readers' = readers + rfds[p]
        /\ wfds' = [wfds EXCEPT ![c] = wfds[p]] /\ writers' = writers + wfds[p]
    BY <1>3, Zenon DEF pipe_countup_fork, pipe
  <2>2. Counts(readers', rfds') /\ Counts(writers', wfds')
    BY <1>0, <2>1, CountFork, Zenon DEF Counted, EndsOK
  <2>3. exists /\ readers' + writers' > 0
    BY <1>0, <2>1, Held DEF EndsOK
  <2> QED
    BY <2>1, <2>2, <2>3, Zenon DEF Counted, Counts, Ends
<1>4. ASSUME NEW p \in Procs, pipe_release_reader(p)
      PROVE  Counted'
  <2>1. /\ rfds[p] > 0 /\ exists' = (readers # 1 \/ writers # 0)
        /\ rfds' = [rfds EXCEPT ![p] = @ - 1] /\ readers' = readers - 1
        /\ writers' = writers /\ wfds' = wfds
    BY <1>4, Zenon DEF pipe_release_reader
  <2>2. Counts(readers', rfds') /\ Counts(writers', wfds')
    BY <1>0, <2>1, CountDown, Zenon DEF Counted, EndsOK
  <2>3. (readers # 1 \/ writers # 0) <=> readers' + writers' > 0
    BY <1>0, <2>1, Held DEF EndsOK
  <2> QED
    BY <2>1, <2>2, <2>3, Zenon DEF Counted, Counts, Ends
<1>5. ASSUME NEW p \in Procs, pipe_release_writer(p)
      PROVE  Counted'
  <2>1. /\ wfds[p] > 0 /\ exists' = (writers # 1 \/ readers # 0)
        /\ wfds' = [wfds EXCEPT ![p] = @ - 1] /\ writers' = writers - 1
        /\ readers' = readers /\ rfds' = rfds
    BY <1>5, Zenon DEF pipe_release_writer
  <2>2. Counts(readers', rfds') /\ Counts(writers', wfds')
    BY <1>0, <2>1, CountDown, Zenon DEF Counted, EndsOK
  <2>3. (writers # 1 \/ readers # 0) <=> readers' + writers' > 0
    BY <1>0, <2>1, Held DEF EndsOK
  <2> QED
    BY <2>1, <2>2, <2>3, Zenon DEF Counted, Counts, Ends
<1>6. CASE UNCHANGED <<exists, ends>>
  BY <1>6, Zenon DEF Counted, Counts, Ends, ends
<1> QED
  BY <1>1, <1>2, <1>3, <1>4, <1>5, <1>6, PipeAssumption, ZenonT(60)
     DEF Next, InKernel, pipe_read, pipe_write, process_resume, pipe_read_eof, pipe_read_sleep,
         pipe_read_copy, pipe_write_broken, pipe_write_sleep, pipe_write_copy, syscall_read,
         syscall_write, pipe

\* A process closes descriptors in user mode only, so a call keeps the one it
\* came with; a write is over when nothing is left to copy.
LEMMA CallsOpenStep ==
    ASSUME TypeOK, CallsOpen, Next
    PROVE  CallsOpen'
<1> USE PipeAssumption
<1>0. EndsOK /\ CallsOK /\ RingOK
  BY TypeParts, ZenonT(60)
<1>1. ASSUME NEW p \in Procs, pipe_create(p) \/ pipe_countup_dup(p)
      PROVE  CallsOpen'
  BY <1>0, <1>1, ZenonT(60) DEF pipe_create, pipe_countup_dup, CallsOpen, InUser, calls, EndsOK
<1>2. ASSUME NEW p \in Procs, NEW c \in Procs, pipe_countup_fork(p, c)
      PROVE  CallsOpen'
  BY <1>0, <1>2, ZenonT(60) DEF pipe_countup_fork, CallsOpen, calls, EndsOK
<1>3. ASSUME NEW p \in Procs, pipe_release_reader(p) \/ pipe_release_writer(p)
      PROVE  CallsOpen'
  BY <1>0, <1>3, ZenonT(60) DEF pipe_release_reader, pipe_release_writer, CallsOpen, InUser, calls, EndsOK
<1>4. ASSUME NEW p \in Readers, NEW size \in ReadSizes, syscall_read(p, size)
      PROVE  CallsOpen'
  BY <1>0, <1>4, Zenon DEF syscall_read, CallsOpen, InUser, ends, CallsOK
<1>5. ASSUME NEW p \in Writers, NEW size \in WriteSizes, NEW data \in [1..size -> Bytes],
             syscall_write(p, data)
      PROVE  CallsOpen'
  BY <1>0, <1>5, Zenon DEF syscall_write, CallsOpen, InUser, ends, CallsOK
<1>6. ASSUME NEW p \in Procs, pipe_read_eof(p)
      PROVE  CallsOpen'
  BY <1>0, <1>6, ZenonT(60) DEF pipe_read_eof, InRead, CallsOpen, ends, CallsOK
<1>7. ASSUME NEW p \in Procs, pipe_read_copy(p)
      PROVE  CallsOpen'
  <2>1. /\ op[p] = "read" /\ UNCHANGED <<rfds, wfds, todo>>
        /\ op' = op \/ op' = [op EXCEPT ![p] = "none"]
    BY <1>7, Zenon DEF pipe_read_copy, InRead, ends
  <2> QED
    BY <1>0, <2>1, ZenonT(60) DEF CallsOpen, CallsOK
<1>8. ASSUME NEW p \in Procs, pipe_write_broken(p)
      PROVE  CallsOpen'
  BY <1>0, <1>8, ZenonT(60) DEF pipe_write_broken, InWrite, CallsOpen, ends, CallsOK
<1>9. ASSUME NEW p \in Procs, pipe_write_copy(p)
      PROVE  CallsOpen'
  <2> DEFINE n == write_length(Len(todo[p]))
             left == SubSeq(todo[p], n + 1, Len(todo[p]))
  <2>1. /\ op[p] = "write" /\ UNCHANGED <<rfds, wfds>>
        /\ todo' = [todo EXCEPT ![p] = left]
        /\ op' = IF Len(todo[p]) = n THEN [op EXCEPT ![p] = "none"] ELSE op
    BY <1>9, Zenon DEF pipe_write_copy, InWrite, ends
  <2>2. todo[p] \in Seq(Bytes) /\ Len(todo[p]) \in Nat
    BY <1>0 DEF CallsOK
  <2> HIDE DEF n
  <2>3. Len(todo[p]) = n => left = <<>>
    BY <2>2
  <2> HIDE DEF left
  <2> QED
    BY <1>0, <2>1, <2>3, ZenonT(60) DEF CallsOpen, CallsOK
<1>10. CASE UNCHANGED <<ends, calls>>
  BY <1>10, Zenon DEF CallsOpen, ends, calls
<1> QED
  BY <1>1, <1>2, <1>3, <1>4, <1>5, <1>6, <1>7, <1>8, <1>9, <1>10, ZenonT(60)
     DEF Next, InKernel, pipe_read, pipe_write, process_resume, pipe_read_sleep, pipe_write_sleep

-----------------------------------------------------------------------------
(* The wait queues *)

\* process_sleep puts the caller in front.
LEMMA SleepIn ==
    ASSUME NEW q \in Seq(Procs), NEW call, NEW p \in Procs,
           NEW states \in [Procs -> {"READY", "BLOCKED"}], NEW ops,
           Asleep(q, call, states, ops), states[p] = "READY", ops[p] = call
    PROVE  Asleep(<<p>> \o q, call, [states EXCEPT ![p] = "BLOCKED"], ops)
<1> DEFINE r == <<p>> \o q
<1>1. Len(r) = Len(q) + 1 /\ Len(q) \in Nat
  OBVIOUS
<1>2. r[1] = p /\ \A i \in 2..Len(r) : i - 1 \in 1..Len(q) /\ r[i] = q[i - 1] /\ r[i] \in Procs
  OBVIOUS
<1> HIDE DEF r
<1>3. \A i \in 1..Len(q) : q[i] # p
  BY Zenon DEF Asleep
<1>4. ASSUME NEW i \in 1..Len(r)
      PROVE  [states EXCEPT ![p] = "BLOCKED"][r[i]] = "BLOCKED" /\ ops[r[i]] = call
  <2>1. CASE i = 1
    BY <1>2, <2>1, Zenon
  <2>2. CASE i # 1
    <3>1. i \in 2..Len(r)
      BY <1>1, <2>2
    <3> QED
      BY <1>2, <3>1 DEF Asleep
  <2> QED
    BY <2>1, <2>2, Zenon
<1>5. ASSUME NEW i \in 1..Len(r), NEW j \in 1..Len(r), r[i] = r[j]
      PROVE  i = j
  BY <1>1, <1>2, <1>3, <1>5, SMTT(60) DEF Asleep
<1>6. Asleep(r, call, [states EXCEPT ![p] = "BLOCKED"], ops)
  BY <1>4, <1>5, Zenon DEF Asleep
<1> QED
  BY <1>6, Zenon DEF r

\* What happens to others is nothing to a sleeper.
LEMMA SleepOn ==
    ASSUME NEW q, NEW call, NEW states, NEW ops, NEW states2, NEW ops2,
           Asleep(q, call, states, ops),
           \A i \in 1..Len(q) : states2[q[i]] = states[q[i]] /\ ops2[q[i]] = ops[q[i]]
    PROVE  Asleep(q, call, states2, ops2)
  BY ZenonT(60) DEF Asleep

\* process_wake takes the one in front.
LEMMA WakeOne ==
    ASSUME QueuesOK, NEW q \in Seq(Procs), NEW call, NEW ops, Asleep(q, call, state, ops)
    PROVE  /\ Asleep(rest(q), call, woken(q), ops)
           /\ \A p \in Procs : woken(q)[p] = state[p] \/ woken(q)[p] = "READY"
           /\ \A p \in Procs : ops[p] # call => woken(q)[p] = state[p]
           /\ rest(q) # <<>> => \E p \in Procs : ops[p] = call /\ woken(q)[p] = "READY"
<1>1. CASE q = <<>>
  BY <1>1, Zenon DEF rest, woken
<1>2. CASE q # <<>>
  <2>1. /\ Len(q) \in Nat \ {0} /\ Head(q) = q[1] /\ q[1] \in Procs
        /\ Tail(q) \in Seq(Procs) /\ Len(Tail(q)) = Len(q) - 1
        /\ \A i \in 1..Len(Tail(q)) : i + 1 \in 1..Len(q) /\ Tail(q)[i] = q[i + 1] /\ q[i + 1] \in Procs
    BY <1>2
  <2>2. rest(q) = Tail(q) /\ woken(q) = [state EXCEPT ![q[1]] = "READY"]
    BY <1>2, <2>1, Zenon DEF rest, woken
  <2>3. \A i \in 1..Len(Tail(q)) : q[i + 1] # q[1]
    BY <2>1 DEF Asleep
  <2>4. ASSUME NEW i \in 1..Len(Tail(q))
        PROVE  woken(q)[Tail(q)[i]] = "BLOCKED" /\ ops[Tail(q)[i]] = call
    BY <2>1, <2>2, <2>3, SMTT(60) DEF Asleep, QueuesOK
  <2>5. ASSUME NEW i \in 1..Len(Tail(q)), NEW j \in 1..Len(Tail(q)), Tail(q)[i] = Tail(q)[j]
        PROVE  i = j
    BY <2>1, <2>5 DEF Asleep
  <2>6. Asleep(Tail(q), call, woken(q), ops)
    BY <2>4, <2>5, ZenonT(60) DEF Asleep
  <2>7. ops[q[1]] = call /\ woken(q)[q[1]] = "READY"
    BY <2>1, <2>2, SMTT(60) DEF Asleep, QueuesOK
  <2> QED
    BY <2>1, <2>2, <2>6, <2>7, ZenonT(60) DEF QueuesOK
<1> QED
  BY <1>1, <1>2, Zenon

\* pipe_release wakes all sleepers of the other end, or none.
LEMMA WakeAll ==
    ASSUME QueuesOK, NEW q \in Seq(Procs), NEW call, NEW n, Asleep(q, call, state, op)
    PROVE  /\ Asleep(left_asleep(n, q), call, wake_all_but(q, left_asleep(n, q)), op)
           /\ \A p \in Procs : \/ wake_all_but(q, left_asleep(n, q))[p] = state[p]
                               \/ wake_all_but(q, left_asleep(n, q))[p] = "READY"
           /\ \A p \in Procs : op[p] # call => wake_all_but(q, left_asleep(n, q))[p] = state[p]
<1> DEFINE after == wake_all_but(q, left_asleep(n, q))
<1>1. InSeq(q) = {q[i] : i \in 1..Len(q)}
  BY SMTT(60) DEF InSeq
<1>2. CASE n = 1
  <2>1. left_asleep(n, q) = <<>>
    BY <1>2, Zenon DEF left_asleep
  <2>2. \A p \in Procs : after[p] = state[p] \/ (after[p] = "READY" /\ p \in InSeq(q))
    BY Zenon DEF wake_all_but
  <2> QED
    BY <1>1, <2>1, <2>2 DEF Asleep
<1>3. CASE n # 1
  <2>1. left_asleep(n, q) = q
    BY <1>3, Zenon DEF left_asleep
  <2>2. after = state
    BY <2>1, ZenonT(60) DEF wake_all_but, QueuesOK
  <2> QED
    BY <2>1, <2>2, Zenon
<1> QED
  BY <1>2, <1>3, ZenonT(60)

\* Sleepers stay in their queues until they are woken.
LEMMA QueuedStep ==
    ASSUME TypeOK, Queued, Next
    PROVE  Queued'
<1> USE PipeAssumption
<1>0. CallsOK /\ QueuesOK
  BY TypeParts, Zenon
<1>a. /\ \A i \in 1..Len(readers_waitq) : readers_waitq[i] \in Procs
      /\ \A i \in 1..Len(writers_waitq) : writers_waitq[i] \in Procs
  BY <1>0, SMTT(60) DEF QueuesOK
<1>1. ASSUME NEW p \in Procs, pipe_create(p)
      PROVE  Queued'
  BY <1>0, <1>1 DEF pipe_create, calls, Queued, Asleep
<1>2. ASSUME NEW p \in Procs, pipe_release_reader(p)
      PROVE  Queued'
  <2> DEFINE after == wake_all_but(writers_waitq, left_asleep(readers, writers_waitq))
  <2>1. /\ state' = after /\ writers_waitq' = left_asleep(readers, writers_waitq)
        /\ UNCHANGED <<readers_waitq, op, running>>
    BY <1>2, Zenon DEF pipe_release_reader, calls
  <2>2. /\ Asleep(left_asleep(readers, writers_waitq), "write", after, op)
        /\ \A r \in Procs : after[r] = state[r] \/ after[r] = "READY"
        /\ \A r \in Procs : op[r] # "write" => after[r] = state[r]
    <3>1. writers_waitq \in Seq(Procs) /\ Asleep(writers_waitq, "write", state, op)
      BY <1>0, Zenon DEF Queued, QueuesOK
    <3> QED
      BY <1>0, <3>1, WakeAll, ZenonT(60)
  <2> HIDE DEF after
  <2>3. Asleep(readers_waitq, "read", after, op)
    BY <1>a, <2>2, ZenonT(60) DEF Queued, Asleep
  <2> QED
    BY <1>0, <2>1, <2>2, <2>3, ZenonT(60) DEF Queued, CallsOK
<1>3. ASSUME NEW p \in Procs, pipe_release_writer(p)
      PROVE  Queued'
  <2> DEFINE after == wake_all_but(readers_waitq, left_asleep(writers, readers_waitq))
  <2>1. /\ state' = after /\ readers_waitq' = left_asleep(writers, readers_waitq)
        /\ UNCHANGED <<writers_waitq, op, running>>
    BY <1>3, Zenon DEF pipe_release_writer, calls
  <2>2. /\ Asleep(left_asleep(writers, readers_waitq), "read", after, op)
        /\ \A r \in Procs : after[r] = state[r] \/ after[r] = "READY"
        /\ \A r \in Procs : op[r] # "read" => after[r] = state[r]
    <3>1. readers_waitq \in Seq(Procs) /\ Asleep(readers_waitq, "read", state, op)
      BY <1>0, Zenon DEF Queued, QueuesOK
    <3> QED
      BY <1>0, <3>1, WakeAll, ZenonT(60)
  <2> HIDE DEF after
  <2>3. Asleep(writers_waitq, "write", after, op)
    BY <1>a, <2>2, ZenonT(60) DEF Queued, Asleep
  <2> QED
    BY <1>0, <2>1, <2>2, <2>3, Zenon DEF Queued, CallsOK
<1>4. ASSUME NEW p \in Procs, state[p] = "READY", UNCHANGED queues,
             NEW call \in {"none", "read", "write"}, op' = [op EXCEPT ![p] = call],
             running' \in {p, NULL}
      PROVE  Queued'
  <2>1. /\ \A i \in 1..Len(readers_waitq) : readers_waitq[i] # p
        /\ \A i \in 1..Len(writers_waitq) : writers_waitq[i] # p
    BY <1>4, ZenonT(60) DEF Queued, Asleep
  <2>2. Asleep(readers_waitq, "read", state, op') /\ Asleep(writers_waitq, "write", state, op')
    BY <1>0, <1>a, <1>4, <2>1, Zenon DEF Queued, Asleep, CallsOK
  <2> QED
    BY <1>0, <1>4, <2>2, ZenonT(60) DEF Queued, CallsOK, queues
<1>5. ASSUME NEW p \in Readers, NEW size \in ReadSizes, syscall_read(p, size)
      PROVE  Queued'
  BY <1>4, <1>5, Zenon DEF syscall_read, InUser, Queued
<1>6. ASSUME NEW p \in Writers, NEW size \in WriteSizes, NEW data \in [1..size -> Bytes],
             syscall_write(p, data)
      PROVE  Queued'
  BY <1>4, <1>6, ZenonT(60) DEF syscall_write, InUser, Queued
<1>7. ASSUME NEW p \in Procs, process_resume(p)
      PROVE  Queued'
  BY <1>7, Zenon DEF process_resume, Queued, queues, calls
<1>8. ASSUME NEW p \in Procs, pipe_read_eof(p)
      PROVE  Queued'
  BY <1>4, <1>8, Zenon DEF pipe_read_eof, InRead, Queued
<1>9. ASSUME NEW p \in Procs, pipe_write_broken(p)
      PROVE  Queued'
  BY <1>4, <1>9, Zenon DEF pipe_write_broken, InWrite, Queued
<1>10. ASSUME NEW p \in Procs, pipe_read_sleep(p)
       PROVE  Queued'
  <2>1. /\ state[p] = "READY" /\ op[p] = "read" /\ op' = op /\ running' = NULL
        /\ readers_waitq' = <<p>> \o readers_waitq /\ writers_waitq' = writers_waitq
        /\ state' = [state EXCEPT ![p] = "BLOCKED"]
    BY <1>10, Zenon DEF pipe_read_sleep, InRead, Queued, calls
  <2>2. Asleep(<<p>> \o readers_waitq, "read", [state EXCEPT ![p] = "BLOCKED"], op)
    BY <1>0, <2>1, SleepIn, ZenonT(60) DEF Queued, QueuesOK
  <2>3. Asleep(writers_waitq, "write", [state EXCEPT ![p] = "BLOCKED"], op)
    BY <1>0, <1>a, <2>1, ZenonT(60) DEF Queued, Asleep, QueuesOK
  <2> QED
    BY <1>0, <2>1, <2>2, <2>3, ZenonT(60) DEF Queued, QueuesOK
<1>11. ASSUME NEW p \in Procs, pipe_write_sleep(p)
       PROVE  Queued'
  <2>1. /\ state[p] = "READY" /\ op[p] = "write" /\ op' = op /\ running' = NULL
        /\ writers_waitq' = <<p>> \o writers_waitq /\ readers_waitq' = readers_waitq
        /\ state' = [state EXCEPT ![p] = "BLOCKED"]
    BY <1>11, Zenon DEF pipe_write_sleep, InWrite, Queued, calls
  <2>2. Asleep(<<p>> \o writers_waitq, "write", [state EXCEPT ![p] = "BLOCKED"], op)
    BY <1>0, <2>1, SleepIn, Zenon DEF Queued, QueuesOK
  <2>3. Asleep(readers_waitq, "read", [state EXCEPT ![p] = "BLOCKED"], op)
    BY <1>0, <1>a, <2>1, ZenonT(60) DEF Queued, Asleep, QueuesOK
  <2> QED
    BY <1>0, <2>1, <2>2, <2>3, ZenonT(60) DEF Queued, QueuesOK
<1>12. ASSUME NEW p \in Procs, pipe_read_copy(p)
       PROVE  Queued'
  <2>1. /\ running = p /\ state[p] = "READY" /\ op[p] = "read" /\ readers_waitq' = readers_waitq
        /\ \/ UNCHANGED <<state, writers_waitq, op, running>>
           \/ /\ state' = woken(writers_waitq) /\ writers_waitq' = rest(writers_waitq)
              /\ \/ UNCHANGED <<op, running>>
                 \/ op' = [op EXCEPT ![p] = "none"] /\ running' = NULL
    BY <1>12, ZenonT(60) DEF pipe_read_copy, InRead, Queued
  <2>2. CASE UNCHANGED <<state, writers_waitq, op, running>>
    BY <2>1, <2>2, ZenonT(60) DEF Queued
  <2>3. CASE state' = woken(writers_waitq) /\ writers_waitq' = rest(writers_waitq)
    <3>1. /\ Asleep(rest(writers_waitq), "write", woken(writers_waitq), op)
          /\ \A r \in Procs : woken(writers_waitq)[r] = state[r] \/ woken(writers_waitq)[r] = "READY"
          /\ \A r \in Procs : op[r] # "write" => woken(writers_waitq)[r] = state[r]
      BY <1>0, WakeOne, SMTT(60) DEF Queued, QueuesOK
    <3>2. Asleep(readers_waitq, "read", woken(writers_waitq), op)
      BY <1>a, <3>1, ZenonT(60) DEF Queued, Asleep
    <3>3. /\ rest(writers_waitq) \in Seq(Procs)
          /\ \A i \in 1..Len(rest(writers_waitq)) : rest(writers_waitq)[i] \in Procs
      BY <1>0, SMTT(60) DEF rest, QueuesOK
    <3>4. /\ \A i \in 1..Len(readers_waitq) : readers_waitq[i] # p
          /\ \A i \in 1..Len(rest(writers_waitq)) : rest(writers_waitq)[i] # p
      BY <2>1, <3>1, ZenonT(60) DEF Queued, Asleep
    <3>5. /\ Asleep(rest(writers_waitq), "write", woken(writers_waitq), op')
          /\ Asleep(readers_waitq, "read", woken(writers_waitq), op')
      <4>1. /\ \A i \in 1..Len(readers_waitq) : op'[readers_waitq[i]] = op[readers_waitq[i]]
            /\ \A i \in 1..Len(rest(writers_waitq)) :
                  op'[rest(writers_waitq)[i]] = op[rest(writers_waitq)[i]]
        BY <1>0, <1>a, <2>1, <3>3, <3>4, Zenon DEF CallsOK
      <4> QED
        BY <3>1, <3>2, <4>1, SleepOn, ZenonT(60)
    <3> QED
      BY <1>0, <2>1, <2>3, <3>1, <3>5, ZenonT(60) DEF Queued, CallsOK
  <2> QED
    BY <2>1, <2>2, <2>3, ZenonT(60)
<1>13. ASSUME NEW p \in Procs, pipe_write_copy(p)
       PROVE  Queued'
  <2>1. /\ running = p /\ state[p] = "READY" /\ op[p] = "write" /\ writers_waitq' = writers_waitq
        /\ state' = woken(readers_waitq) /\ readers_waitq' = rest(readers_waitq)
        /\ \/ UNCHANGED <<op, running>>
           \/ op' = [op EXCEPT ![p] = "none"] /\ running' = NULL
    BY <1>13, ZenonT(60) DEF pipe_write_copy, InWrite, Queued
  <2>2. /\ Asleep(rest(readers_waitq), "read", woken(readers_waitq), op)
        /\ \A r \in Procs : woken(readers_waitq)[r] = state[r] \/ woken(readers_waitq)[r] = "READY"
        /\ \A r \in Procs : op[r] # "read" => woken(readers_waitq)[r] = state[r]
    BY <1>0, WakeOne, SMTT(60) DEF Queued, QueuesOK
  <2>3. Asleep(writers_waitq, "write", woken(readers_waitq), op)
    BY <1>a, <2>2, ZenonT(60) DEF Queued, Asleep
  <2>4. /\ rest(readers_waitq) \in Seq(Procs)
        /\ \A i \in 1..Len(rest(readers_waitq)) : rest(readers_waitq)[i] \in Procs
    BY <1>0, SMTT(60) DEF rest, QueuesOK
  <2>5. /\ \A i \in 1..Len(writers_waitq) : writers_waitq[i] # p
        /\ \A i \in 1..Len(rest(readers_waitq)) : rest(readers_waitq)[i] # p
    BY <2>1, <2>2, ZenonT(60) DEF Queued, Asleep
  <2>6. /\ Asleep(rest(readers_waitq), "read", woken(readers_waitq), op')
        /\ Asleep(writers_waitq, "write", woken(readers_waitq), op')
    <3>1. /\ \A i \in 1..Len(writers_waitq) : op'[writers_waitq[i]] = op[writers_waitq[i]]
          /\ \A i \in 1..Len(rest(readers_waitq)) :
                op'[rest(readers_waitq)[i]] = op[rest(readers_waitq)[i]]
      BY <1>0, <1>a, <2>1, <2>4, <2>5, ZenonT(60) DEF CallsOK
    <3> QED
      BY <2>2, <2>3, <3>1, SleepOn, ZenonT(60)
  <2> QED
    BY <1>0, <2>1, <2>2, <2>6, ZenonT(60) DEF Queued, CallsOK
<1>14. CASE UNCHANGED <<queues, op, running>>
  BY <1>14, Zenon DEF Queued, queues
<1> QED
  BY <1>1, <1>2, <1>3, <1>5, <1>6, <1>7, <1>8, <1>9, <1>10, <1>11, <1>12, <1>13, <1>14, ZenonT(60)
     DEF Next, InKernel, pipe_read, pipe_write, pipe_countup_dup, pipe_countup_fork, calls

-----------------------------------------------------------------------------
(* The assertions, and who waits for whom *)

\* No SYSTEM_BUG_ON fires but the one after a read of size 0 from a full pipe.
LEMMA BugStep ==
    ASSUME TypeOK, Counted, CallsOpen, Next, halted'
    PROVE  \E p \in Readers : running' = p /\ op'[p] = "read" /\ want'[p] = 0 /\ length' = PAGE_SIZE
<1> DEFINE Cause ==
      \E p \in Readers : running' = p /\ op'[p] = "read" /\ want'[p] = 0 /\ length' = PAGE_SIZE
<1>0. RingOK /\ EndsOK /\ CallsOK
  BY TypeParts, Zenon
<1>1. ASSUME NEW p \in Procs, pipe_release_reader(p)
      PROVE  FALSE
  <2>1. rfds[p] > 0 /\ halted' = (readers = 0)
    BY <1>1, Zenon DEF pipe_release_reader
  <2>2. readers # 0
    BY <1>0, <2>1, Held, SMTT(60) DEF EndsOK
  <2> QED
    BY <2>1, <2>2, Zenon
<1>2. ASSUME NEW p \in Procs, pipe_release_writer(p)
      PROVE  FALSE
  <2>1. wfds[p] > 0 /\ halted' = (writers = 0)
    BY <1>2, Zenon DEF pipe_release_writer
  <2>2. writers # 0
    BY <1>0, <2>1, Held, SMTT(60) DEF EndsOK
  <2> QED
    BY <2>1, <2>2, Zenon
<1>3. ASSUME NEW p \in Procs, pipe_read_copy(p)
      PROVE  Cause
  <2> DEFINE n == read_length(want[p])
  <2>1. want[p] \in Nat /\ length # 0 /\ running = p /\ op[p] = "read"
    BY <1>0, <1>3, ZenonT(60) DEF CallsOK, pipe_read_copy, InRead
  <2>2. n \in 0..length /\ (n = 0 => want[p] = 0)
    BY <2>1, ReadLength, Zenon
  <2>3. /\ want' = [want EXCEPT ![p] = IF length - n = 0 THEN 0 ELSE @ - n]
        /\ length' = length - n
        /\ length - n >= PAGE_SIZE => UNCHANGED <<op, running>>
    BY <1>3, Zenon DEF pipe_read_copy
  <2>4. ~halted /\ (length - n >= PAGE_SIZE \/ halted' = halted)
    BY <1>3, Zenon DEF pipe_read_copy, InRead
  <2>5. length - n >= PAGE_SIZE
    BY <2>4, Zenon
  <2> HIDE DEF n
  <2>6. n = 0 /\ length = PAGE_SIZE
    BY <1>0, <2>2, <2>5, PipeAssumption, SMTT(60) DEF RingOK
  <2>7. want'[p] = 0 /\ length' = PAGE_SIZE
    BY <1>0, <2>2, <2>3, <2>6, PipeAssumption, SMTT(60) DEF CallsOK
  <2>8. p \in Readers
    BY <2>1, Zenon DEF CallsOpen
  <2> QED
    BY <2>1, <2>3, <2>5, <2>7, <2>8, ZenonT(60)
<1>4. ASSUME NEW p \in Procs, pipe_write_copy(p)
      PROVE  FALSE
  <2> DEFINE n == write_length(Len(todo[p]))
  <2>1. halted' = (length + n > PAGE_SIZE) /\ length # PAGE_SIZE
    BY <1>4, Zenon DEF pipe_write_copy
  <2>2. Len(todo[p]) \in Nat
    BY <1>0 DEF CallsOK
  <2>3. n \in 0..(PAGE_SIZE - length)
    BY <2>1, <2>2, WriteLength, Zenon
  <2> HIDE DEF n
  <2>4. ~(length + n > PAGE_SIZE)
    BY <1>0, <2>3, PipeAssumption DEF RingOK
  <2> QED
    BY <2>1, <2>4, Zenon
<1>5. CASE ~halted /\ halted' = halted
  BY <1>5, Zenon
<1> QED
  BY <1>1, <1>2, <1>3, <1>4, <1>5, PipeAssumption, ZenonT(60)
     DEF Next, InKernel, pipe_read, pipe_write, pipe_create, pipe_countup_dup, pipe_countup_fork,
         process_resume, pipe_read_eof, pipe_read_sleep, pipe_write_broken, pipe_write_sleep,
         syscall_read, syscall_write, InUser, InRead, InWrite

\* A sleeper's peers are counted until the last one leaves and wakes it.
LEMMA PeersStep ==
    ASSUME TypeOK, Counted, SleepersHavePeers, Next
    PROVE  SleepersHavePeers'
<1> USE PipeAssumption
<1>0. EndsOK /\ QueuesOK
  BY TypeParts, ZenonT(60)
<1>1. ASSUME NEW p \in Procs, pipe_create(p) \/ pipe_countup_dup(p)
      PROVE  SleepersHavePeers'
  BY <1>0, <1>1, SMTT(60) DEF pipe_create, pipe_countup_dup, queues, SleepersHavePeers, EndsOK
<1>2. ASSUME NEW p \in Procs, NEW c \in Procs, pipe_countup_fork(p, c)
      PROVE  SleepersHavePeers'
  BY <1>0, <1>2 DEF pipe_countup_fork, queues, SleepersHavePeers, EndsOK
<1>3. ASSUME NEW p \in Procs, pipe_release_reader(p)
      PROVE  SleepersHavePeers'
  <2>1. /\ rfds[p] > 0 /\ readers' = readers - 1 /\ UNCHANGED <<writers, readers_waitq>>
        /\ writers_waitq' = left_asleep(readers, writers_waitq)
    BY <1>3, Zenon DEF pipe_release_reader
  <2>2. readers > 0
    BY <2>1, Held, Zenon
  <2> QED
    BY <1>0, <2>1, <2>2, SMTT(60) DEF left_asleep, SleepersHavePeers, EndsOK
<1>4. ASSUME NEW p \in Procs, pipe_release_writer(p)
      PROVE  SleepersHavePeers'
  <2>1. /\ wfds[p] > 0 /\ writers' = writers - 1 /\ UNCHANGED <<readers, writers_waitq>>
        /\ readers_waitq' = left_asleep(writers, readers_waitq)
    BY <1>4, Zenon DEF pipe_release_writer
  <2>2. writers > 0
    BY <2>1, Held, ZenonT(60)
  <2> QED
    BY <1>0, <2>1, <2>2, SMTT(60) DEF left_asleep, SleepersHavePeers, EndsOK
<1>5. ASSUME NEW p \in Procs, pipe_read_sleep(p) \/ pipe_write_sleep(p)
      PROVE  SleepersHavePeers'
  BY <1>0, <1>5 DEF pipe_read_sleep, pipe_write_sleep, ends, SleepersHavePeers, EndsOK
<1>6. ASSUME NEW p \in Procs, pipe_read_copy(p) \/ pipe_write_copy(p)
      PROVE  SleepersHavePeers'
  <2>1. /\ UNCHANGED <<readers, writers>>
        /\ readers_waitq' \in {readers_waitq, rest(readers_waitq)}
        /\ writers_waitq' \in {writers_waitq, rest(writers_waitq)}
    BY <1>6, Zenon DEF pipe_read_copy, pipe_write_copy, ends
  <2> QED
    BY <2>1, ZenonT(60) DEF rest, SleepersHavePeers
<1>7. CASE UNCHANGED <<readers, writers, queues>>
  BY <1>7, Zenon DEF queues, SleepersHavePeers
<1> QED
  BY <1>1, <1>2, <1>3, <1>4, <1>5, <1>6, <1>7, ZenonT(60)
     DEF Next, InKernel, pipe_read, pipe_write, process_resume, pipe_read_eof, pipe_write_broken,
         syscall_read, syscall_write, ends

\* IInv is inductive.
LEMMA Inductive == IInv /\ [Next]_vars => IInv'
<1> SUFFICES ASSUME IInv, [Next]_vars PROVE IInv'
  OBVIOUS
<1>1. CASE Next
  <2>1. TypeOK /\ Counted /\ CallsOpen /\ Queued /\ SleepersHavePeers
    BY Zenon DEF IInv, OneBugOnly
  <2>2. TypeOK' /\ Counted' /\ CallsOpen' /\ Queued' /\ SleepersHavePeers'
    BY <1>1, <2>1, TypeStep, CountedStep, CallsOpenStep, QueuedStep, PeersStep, ZenonT(60)
  <2>3. OneBugOnly'
    BY <1>1, <2>1, <2>2, BugStep, Zenon DEF OneBugOnly
  <2> QED
    BY <2>2, <2>3, Zenon DEF IInv
<1>2. CASE UNCHANGED vars
  <2>1. UNCHANGED <<exists, page, offset, length, readers, writers, rfds, wfds, readers_waitq,
                    writers_waitq, state, op, want, got, todo, running, sigpipe, halted>>
    BY <1>2, Zenon DEF vars, pipe, ends, queues, calls
  <2>2. TypeOK'
    BY <2>1, Zenon DEF IInv, OneBugOnly, TypeOK
  <2>3. OneBugOnly'
    BY <2>1, <2>2, Zenon DEF IInv, OneBugOnly
  <2>4. Counted'
    BY <2>1, Zenon DEF IInv, Counted, Counts, Ends
  <2>5. CallsOpen' /\ SleepersHavePeers'
    BY <2>1, ZenonT(60) DEF IInv, CallsOpen, SleepersHavePeers
  <2>6. Queued'
    BY <2>1, Zenon DEF IInv, Queued
  <2> QED
    BY <2>3, <2>4, <2>5, <2>6, ZenonT(60) DEF IInv
<1> QED
  BY <1>1, <1>2, Zenon

-----------------------------------------------------------------------------
(* Theorems *)

\* The fields of struct pipe keep their ranges and no SYSTEM_BUG_ON of pipe.c
\* fires but the one a read of size 0 from a full pipe meets, whatever the size
\* of the page and of the calls and however many processes share the pipe.
THEOREM OneBug == Spec => []OneBugOnly
<1>1. IInv => OneBugOnly
  BY Zenon DEF IInv
<1> QED
  BY <1>1, InitInv, Inductive, PTL DEF Spec

\* The set that the proofs count is that of the property.
LEMMA DescriptorsAre ==
    ASSUME NEW fds \in [Procs -> Nat]
    PROVE  Descriptors(fds) = Ends(fds)
<1>1. ASSUME NEW x \in Descriptors(fds) PROVE x \in Ends(fds)
  <2>1. PICK p \in Procs : x \in {p} \X (1..fds[p])
    BY Zenon DEF Descriptors
  <2>2. PICK k \in 1..fds[p] : x = <<p, k>>
    BY <2>1
  <2> QED
    BY <2>2 DEF Ends
<1>2. ASSUME NEW x \in Ends(fds) PROVE x \in Descriptors(fds)
  <2>1. PICK p \in Procs, k \in Nat \ {0} : x = <<p, k>>
    BY DEF Ends
  <2>2. k <= fds[p]
    BY <2>1 DEF Ends
  <2>3. x \in {p} \X (1..fds[p])
    BY <2>1, <2>2
  <2> QED
    BY <2>3, Zenon DEF Descriptors
<1> QED
  BY <1>1, <1>2, Zenon

\* The counts in struct pipe are those of the descriptors processes have, the
\* pipe exists exactly as long as there are any, and a process inside
\* pipe_read or pipe_write finds it there.
THEOREM EndsAreCounted == Spec => []EndsCounted
<1>1. ASSUME IInv PROVE EndsCounted
  <2>1. TypeOK /\ Counted /\ CallsOpen
    BY <1>1, Zenon DEF IInv, OneBugOnly
  <2>2. EndsOK /\ CallsOK
    BY <2>1, TypeParts, Zenon
  <2>3. Descriptors(rfds) = Ends(rfds) /\ Descriptors(wfds) = Ends(wfds)
    BY <2>2, DescriptorsAre, Zenon DEF EndsOK
  <2>4. readers = Cardinality(Descriptors(rfds)) /\ writers = Cardinality(Descriptors(wfds))
    BY <2>1, <2>3, Zenon DEF Counted, Counts
  <2>5. exists <=> Cardinality(Descriptors(rfds)) + Cardinality(Descriptors(wfds)) > 0
    BY <2>1, <2>4, Zenon DEF Counted
  <2>6. ASSUME NEW p \in Procs, op[p] # "none" PROVE exists
    <3>1. op[p] = "read" \/ op[p] = "write"
      BY <2>2, <2>6, Zenon DEF CallsOK
    <3> QED
      BY <2>1, <3>1, Held, Zenon DEF CallsOpen
  <2> QED
    BY <2>4, <2>5, <2>6, Zenon DEF EndsCounted
<1>2. IInv => EndsCounted
  BY <1>1, Zenon
<1> QED
  BY <1>2, InitInv, Inductive, PTL DEF Spec

-----------------------------------------------------------------------------
(* Nobody sleeps in vain, if no program writes 0 bytes *)

\* A write that has not returned has bytes left.
WritesLeft == \A p \in Procs : op[p] = "write" => todo[p] # <<>>

LEMMA WritesLeftStep ==
    ASSUME 0 \notin WriteSizes, TypeOK, WritesLeft, Next
    PROVE  WritesLeft'
<1> USE PipeAssumption
<1>0. RingOK /\ CallsOK
  BY TypeParts, Zenon
<1>1. ASSUME NEW p \in Readers, NEW size \in ReadSizes, syscall_read(p, size)
      PROVE  WritesLeft'
  BY <1>0, <1>1, Zenon DEF syscall_read, WritesLeft, CallsOK
<1>2. ASSUME NEW p \in Writers, NEW size \in WriteSizes, NEW data \in [1..size -> Bytes],
             syscall_write(p, data)
      PROVE  WritesLeft'
  <2>1. size \in Nat \ {0}
    OBVIOUS
  <2>2. data # <<>>
    BY <2>1
  <2> QED
    BY <1>0, <1>2, <2>2, Zenon DEF syscall_write, WritesLeft, CallsOK
<1>3. ASSUME NEW p \in Procs, pipe_read_eof(p)
      PROVE  WritesLeft'
  BY <1>0, <1>3, Zenon DEF pipe_read_eof, WritesLeft, CallsOK
<1>4. ASSUME NEW p \in Procs, pipe_read_copy(p)
      PROVE  WritesLeft'
  <2>1. todo' = todo /\ (op' = op \/ op' = [op EXCEPT ![p] = "none"])
    BY <1>4, Zenon DEF pipe_read_copy
  <2> QED
    BY <1>0, <2>1, Zenon DEF WritesLeft, CallsOK
<1>5. ASSUME NEW p \in Procs, pipe_write_broken(p)
      PROVE  WritesLeft'
  BY <1>0, <1>5, Zenon DEF pipe_write_broken, WritesLeft, CallsOK
<1>6. ASSUME NEW p \in Procs, pipe_write_copy(p)
      PROVE  WritesLeft'
  <2> DEFINE n == write_length(Len(todo[p]))
             left == SubSeq(todo[p], n + 1, Len(todo[p]))
  <2>1. /\ length # PAGE_SIZE
        /\ todo' = [todo EXCEPT ![p] = left]
        /\ op' = IF Len(todo[p]) = n THEN [op EXCEPT ![p] = "none"] ELSE op
    BY <1>6, Zenon DEF pipe_write_copy
  <2>2. todo[p] \in Seq(Bytes) /\ Len(todo[p]) \in Nat
    BY <1>0 DEF CallsOK
  <2>3. n \in 0..(PAGE_SIZE - length) /\ n <= Len(todo[p])
    BY <2>1, <2>2, WriteLength, Zenon
  <2>4. n \in Nat
    BY <1>0, <2>3 DEF RingOK
  <2> HIDE DEF n
  <2>5. Len(todo[p]) # n => left # <<>>
    <3>1. Len(left) = Len(todo[p]) - n
      BY <2>2, <2>3, <2>4
    <3> HIDE DEF left
    <3> QED
      BY <2>2, <2>3, <2>4, <3>1
  <2> HIDE DEF left
  <2> QED
    BY <1>0, <2>1, <2>5, Zenon DEF WritesLeft, CallsOK
<1>7. CASE UNCHANGED <<op, todo>>
  BY <1>7, ZenonT(60) DEF WritesLeft
<1> QED
  BY <1>1, <1>2, <1>3, <1>4, <1>5, <1>6, <1>7, ZenonT(60)
     DEF Next, InKernel, pipe_read, pipe_write, pipe_create, pipe_countup_dup, pipe_countup_fork,
         pipe_release_reader, pipe_release_writer, process_resume, pipe_read_sleep, pipe_write_sleep,
         calls

\* Only a write fills the pipe and only a read empties it, and each wakes one
\* of those it may leave waiting; a woken reader of a full pipe and a woken
\* writer of an empty one change that before they return.
LEMMA MutualStep ==
    ASSUME IInv, WritesLeft, NoMutualWait, Next
    PROVE  NoMutualWait'
<1> USE PipeAssumption
<1>0. RingOK /\ EndsOK /\ CallsOK /\ QueuesOK /\ Queued
  BY TypeParts, ZenonT(60) DEF IInv, OneBugOnly
<1>1. ASSUME NEW p \in Procs, pipe_create(p)
      PROVE  NoMutualWait'
  BY <1>0, <1>1, ZenonT(60) DEF pipe_create, NoMutualWait
<1>2. ASSUME NEW p \in Procs, pipe_release_reader(p)
      PROVE  NoMutualWait'
  <2> DEFINE after == wake_all_but(writers_waitq, left_asleep(readers, writers_waitq))
  <2>1. /\ state' = after /\ writers_waitq' = left_asleep(readers, writers_waitq)
        /\ UNCHANGED <<readers_waitq, op, length>>
    BY <1>2, Zenon DEF pipe_release_reader, calls
  <2>2. \A r \in Procs : after[r] = state[r] \/ after[r] = "READY"
    BY <1>0, Zenon DEF wake_all_but, QueuesOK
  <2>3. left_asleep(readers, writers_waitq) # <<>> => writers_waitq # <<>>
    BY Zenon DEF left_asleep
  <2> HIDE DEF after
  <2> QED
    BY <2>1, <2>2, <2>3, Zenon DEF NoMutualWait
<1>3. ASSUME NEW p \in Procs, pipe_release_writer(p)
      PROVE  NoMutualWait'
  <2> DEFINE after == wake_all_but(readers_waitq, left_asleep(writers, readers_waitq))
  <2>1. /\ state' = after /\ readers_waitq' = left_asleep(writers, readers_waitq)
        /\ UNCHANGED <<writers_waitq, op, length>>
    BY <1>3, Zenon DEF pipe_release_writer, calls
  <2>2. \A r \in Procs : after[r] = state[r] \/ after[r] = "READY"
    BY <1>0, ZenonT(60) DEF wake_all_but, QueuesOK
  <2>3. left_asleep(writers, readers_waitq) # <<>> => readers_waitq # <<>>
    BY Zenon DEF left_asleep
  <2> HIDE DEF after
  <2> QED
    BY <2>1, <2>2, <2>3, Zenon DEF NoMutualWait
<1>4. ASSUME NEW p \in Readers, NEW size \in ReadSizes, syscall_read(p, size)
      PROVE  NoMutualWait'
  BY <1>0, <1>4, Zenon DEF syscall_read, InUser, pipe, queues, NoMutualWait, CallsOK
<1>5. ASSUME NEW p \in Writers, NEW size \in WriteSizes, NEW data \in [1..size -> Bytes],
             syscall_write(p, data)
      PROVE  NoMutualWait'
  BY <1>0, <1>5, Zenon DEF syscall_write, InUser, pipe, queues, NoMutualWait, CallsOK
<1>6. ASSUME NEW p \in Procs, pipe_read_eof(p)
      PROVE  NoMutualWait'
  BY <1>0, <1>6, Zenon DEF pipe_read_eof, InRead, pipe, queues, NoMutualWait, CallsOK
<1>7. ASSUME NEW p \in Procs, pipe_read_sleep(p)
      PROVE  NoMutualWait'
  <2>1. /\ op[p] = "read" /\ length = 0 /\ state' = [state EXCEPT ![p] = "BLOCKED"]
        /\ UNCHANGED <<length, writers_waitq, op>>
    BY <1>7, Zenon DEF pipe_read_sleep, InRead, pipe, calls
  <2> QED
    BY <1>0, <2>1, Zenon DEF NoMutualWait, QueuesOK
<1>8. ASSUME NEW p \in Procs, pipe_write_sleep(p)
      PROVE  NoMutualWait'
  <2>1. /\ op[p] = "write" /\ length = PAGE_SIZE /\ state' = [state EXCEPT ![p] = "BLOCKED"]
        /\ UNCHANGED <<length, readers_waitq, op>>
    BY <1>8, Zenon DEF pipe_write_sleep, InWrite, pipe, calls
  <2> QED
    BY <1>0, <2>1, Zenon DEF NoMutualWait, QueuesOK
<1>9. ASSUME NEW p \in Procs, pipe_write_broken(p)
      PROVE  NoMutualWait'
  <2>1. /\ op[p] = "write" /\ readers = 0 /\ op' = [op EXCEPT ![p] = "none"]
        /\ UNCHANGED <<length, queues>>
    BY <1>9, Zenon DEF pipe_write_broken, InWrite, pipe
  <2>2. writers_waitq = <<>>
    BY <1>0, <2>1 DEF IInv, SleepersHavePeers
  <2> QED
    BY <1>0, <2>1, <2>2, Zenon DEF NoMutualWait, queues, CallsOK
<1>10. ASSUME NEW p \in Procs, pipe_read_copy(p)
       PROVE  NoMutualWait'
  <2> DEFINE n == read_length(want[p])
  <2>1. want[p] \in Nat /\ length # 0 /\ op[p] = "read" /\ state[p] = "READY"
    BY <1>0, <1>10, Zenon DEF CallsOK, pipe_read_copy, InRead, Queued
  <2>2. n \in 0..length
    BY <2>1, ReadLength, Zenon DEF IInv, OneBugOnly
  <2>3. /\ length' = length - n /\ readers_waitq' = readers_waitq
        /\ \/ length - n >= PAGE_SIZE /\ UNCHANGED <<state, writers_waitq, op>>
           \/ /\ length - n < PAGE_SIZE
              /\ state' = woken(writers_waitq) /\ writers_waitq' = rest(writers_waitq)
              /\ op' = op \/ op' = [op EXCEPT ![p] = "none"]
    BY <1>0, <1>10, <2>2 DEF pipe_read_copy, RingOK
  <2> HIDE DEF n
  <2>4. CASE length - n >= PAGE_SIZE /\ UNCHANGED <<state, writers_waitq, op>>
    BY <1>0, <2>1, <2>2, <2>3, <2>4, SMTT(60) DEF NoMutualWait, RingOK
  <2>5. CASE /\ length - n < PAGE_SIZE
             /\ state' = woken(writers_waitq) /\ writers_waitq' = rest(writers_waitq)
             /\ op' = op \/ op' = [op EXCEPT ![p] = "none"]
    <3>1. rest(writers_waitq) # <<>> =>
             \E r \in Procs : op[r] = "write" /\ woken(writers_waitq)[r] = "READY"
      BY <1>0, WakeOne DEF Queued, QueuesOK
    <3>2. rest(writers_waitq) # <<>> =>
             \E r \in Procs : op'[r] = "write" /\ woken(writers_waitq)[r] = "READY"
      BY <1>0, <2>1, <2>5, <3>1, Zenon DEF CallsOK
    <3>3. length' # PAGE_SIZE
      BY <1>0, <2>2, <2>3, <2>5 DEF RingOK
    <3> QED
      BY <2>5, <3>2, <3>3, ZenonT(60) DEF NoMutualWait
  <2> QED
    BY <2>3, <2>4, <2>5, Zenon
<1>11. ASSUME NEW p \in Procs, pipe_write_copy(p)
       PROVE  NoMutualWait'
  <2> DEFINE n == write_length(Len(todo[p]))
  <2>1. /\ op[p] = "write" /\ state[p] = "READY" /\ length # PAGE_SIZE
        /\ length' = length + n /\ writers_waitq' = writers_waitq
        /\ state' = woken(readers_waitq) /\ readers_waitq' = rest(readers_waitq)
        /\ op' = op \/ op' = [op EXCEPT ![p] = "none"]
    BY <1>0, <1>11, ZenonT(60) DEF pipe_write_copy, InWrite, Queued
  <2>2. todo[p] \in Seq(Bytes) /\ todo[p] # <<>> /\ Len(todo[p]) \in Nat \ {0}
    BY <1>0, <2>1 DEF CallsOK, WritesLeft
  <2>3. n \in 0..(PAGE_SIZE - length) /\ n # 0
    <3>1. n \in 0..(PAGE_SIZE - length)
      BY <2>1, <2>2, WriteLength, Zenon DEF IInv, OneBugOnly
    <3>2. write_start \in 0..(PAGE_SIZE - 1)
      BY <1>0 DEF write_start, RingOK
    <3>3. n # 0
      BY <1>0, <2>2, <3>2 DEF write_length, Lesser, RingOK
    <3> QED
      BY <3>1, <3>3, Zenon
  <2> HIDE DEF n
  <2>4. rest(readers_waitq) # <<>> =>
           \E r \in Procs : op[r] = "read" /\ woken(readers_waitq)[r] = "READY"
    BY <1>0, WakeOne DEF Queued, QueuesOK
  <2>5. rest(readers_waitq) # <<>> =>
           \E r \in Procs : op'[r] = "read" /\ woken(readers_waitq)[r] = "READY"
    BY <1>0, <2>1, <2>4, Zenon DEF CallsOK
  <2>6. length' # 0
    BY <1>0, <2>1, <2>3 DEF RingOK
  <2> QED
    BY <2>1, <2>5, <2>6, ZenonT(60) DEF NoMutualWait
<1>12. CASE UNCHANGED <<length, queues, op>>
  BY <1>12, Zenon DEF NoMutualWait, queues
<1> QED
  BY <1>1, <1>2, <1>3, <1>4, <1>5, <1>6, <1>7, <1>8, <1>9, <1>10, <1>11, <1>12, ZenonT(60)
     DEF Next, InKernel, pipe_read, pipe_write, pipe_countup_dup, pipe_countup_fork, process_resume,
         pipe, calls

\* If no program writes 0 bytes, no reader or writer sleeps for a peer that is
\* gone, and the two sides never all sleep on each other, however many there
\* are: the one wakeup per copy of pipe_read and pipe_write is enough.
THEOREM SleepersAreWoken ==
    ASSUME 0 \notin WriteSizes
    PROVE  Spec => []SleepersWoken
<1> DEFINE WInv == IInv /\ WritesLeft /\ NoMutualWait
<1>1. Init => WInv
  <2>1. Init => WritesLeft /\ NoMutualWait
    BY Zenon DEF Init, WritesLeft, NoMutualWait
  <2> QED
    BY <2>1, InitInv, Zenon
<1>2. WInv /\ [Next]_vars => WInv'
  <2> SUFFICES ASSUME WInv, [Next]_vars PROVE WInv'
    OBVIOUS
  <2>1. IInv'
    BY Inductive, Zenon
  <2>2. CASE Next
    BY <2>1, <2>2, WritesLeftStep, MutualStep, Zenon DEF IInv, OneBugOnly
  <2>3. CASE UNCHANGED vars
    <3>1. UNCHANGED <<op, todo, length, state, readers_waitq, writers_waitq>>
      BY <2>3, Zenon DEF vars, pipe, queues, calls
    <3> QED
      BY <2>1, <3>1, Zenon DEF WritesLeft, NoMutualWait
  <2> QED
    BY <2>2, <2>3, Zenon
<1>3. WInv => SleepersWoken
  BY Zenon DEF IInv, SleepersWoken
<1> QED
  BY <1>1, <1>2, <1>3, PTL DEF Spec

-----------------------------------------------------------------------------
(* The ring buffer is a FIFO channel *)

\* The abstract channel, as the refinement mapping computes it.
chan == IF exists THEN Contents ELSE <<>>

\* One step of the pipe is one step of the channel, or none.
LEMMA ChannelStep ==
    ASSUME IInv, IInv', Next
    PROVE  Channel!Next \/ UNCHANGED <<exists, chan, todo, got>>
<1> USE PipeAssumption
<1>0. /\ RingOK /\ CallsOK /\ QueuesOK /\ RingOK'
      /\ TypeOK /\ Counted /\ CallsOpen
  <2>1. TypeOK' => RingOK'
    BY Zenon DEF TypeOK, RingOK
  <2> QED
    BY <2>1, TypeParts, Zenon DEF IInv, OneBugOnly
<1>1. ASSUME NEW p \in Procs, pipe_create(p)
      PROVE  Channel!Open
  <2>1. ~exists /\ exists' /\ length' = 0 /\ UNCHANGED <<todo, got>>
    BY <1>1, Zenon DEF pipe_create, calls
  <2>2. chan = <<>>
    BY <2>1, Zenon DEF chan
  <2>3. Contents' = <<>>
    BY <2>1 DEF Contents
  <2>4. chan' = <<>>
    BY <2>1, <2>3, Zenon DEF chan
  <2> QED
    BY <2>1, <2>2, <2>4, Zenon DEF Channel!Open, chan
<1>2. ASSUME NEW p \in Procs, pipe_release_reader(p) \/ pipe_release_writer(p)
      PROVE  Channel!Destroy \/ UNCHANGED <<exists, chan, todo, got>>
  <2>1. rfds[p] > 0 \/ wfds[p] > 0
    BY <1>2, Zenon DEF pipe_release_reader, pipe_release_writer
  <2>2. UNCHANGED <<page, offset, length, todo, got>>
    BY <1>2, Zenon DEF pipe_release_reader, pipe_release_writer, calls
  <2>3. exists
    BY <1>0, <2>1, Held, Zenon
  <2>4. CASE exists'
    <3>1. exists' = exists
      <4>1. exists \in BOOLEAN /\ exists' \in BOOLEAN
        BY Zenon DEF IInv, OneBugOnly, TypeOK
      <4> QED
        BY <2>3, <2>4, <4>1, Zenon
    <3>2. Contents' = Contents
      BY <2>2, Zenon DEF Contents
    <3> QED
      BY <2>2, <3>1, <3>2, Zenon DEF chan
  <2>5. CASE ~exists'
    <3>1. chan' = <<>>
      BY <2>5, Zenon DEF chan
    <3> QED
      BY <2>2, <2>3, <2>5, <3>1, Zenon DEF Channel!Destroy, chan
  <2> QED
    BY <2>4, <2>5, Zenon
<1>3. ASSUME UNCHANGED pipe
      PROVE  UNCHANGED <<exists, chan>>
  BY <1>3, Zenon DEF pipe, chan, Contents
<1>4. ASSUME NEW p \in Procs, NEW size \in ReadSizes, syscall_read(p, size)
      PROVE  Channel!StartRead(p)
  <2>1. got' = [got EXCEPT ![p] = <<>>] /\ todo' = todo /\ UNCHANGED pipe
    BY <1>4, Zenon DEF syscall_read
  <2> QED
    BY <1>3, <2>1, Zenon DEF Channel!StartRead, chan
<1>5. ASSUME NEW p \in Procs, NEW size \in WriteSizes, NEW data \in [1..size -> Bytes],
             syscall_write(p, data)
      PROVE  todo'[p] \in Seq(Bytes) /\ Channel!StartWrite(p, todo'[p])
  <2>1. op[p] = "none" /\ todo' = [todo EXCEPT ![p] = data] /\ got' = got /\ UNCHANGED pipe
    BY <1>5, Zenon DEF syscall_write, InUser
  <2>2. todo[p] = <<>>
    BY <1>0, <2>1, Zenon DEF CallsOpen
  <2>3. data \in Seq(Bytes)
    OBVIOUS
  <2>4. todo'[p] = data
    BY <1>0, <2>1, Zenon DEF CallsOK
  <2> QED
    BY <1>3, <2>1, <2>2, <2>3, <2>4, Zenon DEF Channel!StartWrite, chan
<1>6. ASSUME NEW p \in Procs, pipe_write_broken(p)
      PROVE  Channel!FailWrite(p)
  <2>1. todo' = [todo EXCEPT ![p] = <<>>] /\ got' = got /\ UNCHANGED pipe
    BY <1>6, Zenon DEF pipe_write_broken
  <2> QED
    BY <1>3, <2>1, Zenon DEF Channel!FailWrite, chan
<1>7. ASSUME NEW p \in Procs, pipe_read_copy(p)
      PROVE  (\E n \in 1..Len(chan) : Channel!Receive(p, n)) \/ UNCHANGED <<exists, chan, todo, got>>
  <2> DEFINE n == read_length(want[p])
             copied == [i \in 1..n |-> page[offset + i - 1]]
  <2>1. want[p] \in Nat /\ length # 0 /\ op[p] = "read"
    BY <1>0, <1>7, Zenon DEF CallsOK, pipe_read_copy, InRead
  <2>2. n \in 0..length /\ offset + n <= PAGE_SIZE
    BY <1>0, <2>1, ReadLength, ZenonT(60)
  <2>3. /\ got' = [got EXCEPT ![p] = @ \o copied] /\ offset' = advance(n) /\ length' = length - n
        /\ UNCHANGED <<exists, page, todo>>
    BY <1>7, ZenonT(60) DEF pipe_read_copy
  <2>4. exists
    BY <1>0, <2>1, Held, Zenon DEF CallsOpen
  <2> HIDE DEF n
  <2>5. exists' /\ chan = Contents /\ chan' = Contents'
    BY <2>3, <2>4, Zenon DEF chan
  <2>6. CASE n = 0
    <3>1. offset' = offset /\ length' = length
      BY <1>0, <2>3, <2>6 DEF advance, RingOK
    <3>2. Contents' = Contents
      BY <2>3, <3>1, Zenon DEF Contents
    <3>3. got[p] \in Seq(Bytes)
      BY <1>0, Zenon DEF CallsOK
    <3>4. copied = <<>>
      BY <2>6
    <3>5. got[p] \o copied = got[p]
      <4>1. got[p] \o <<>> = got[p]
        BY <3>3, ConcatEmptySeq, Zenon
      <4> QED
        BY <3>4, <4>1, Zenon
    <3>6. got' = got
      BY <1>0, <2>3, <3>5, Zenon DEF CallsOK
    <3> QED
      BY <2>3, <2>5, <3>2, <3>6, Zenon
  <2>7. CASE n # 0
    <3>1. n \in 1..length
      BY <1>0, <2>2, <2>7, SMTT(60) DEF RingOK
    <3>2. /\ SubSeq(Contents, 1, n) = copied
          /\ Contents' = SubSeq(Contents, n + 1, Len(Contents))
      BY <1>0, <2>2, <2>3, <3>1, ReadContents, ZenonT(60)
    <3>3. n \in 1..Len(Contents)
      BY <1>0, <3>1, ContentsType, Zenon
    <3> HIDE DEF copied
    <3>4. got' = [got EXCEPT ![p] = @ \o SubSeq(chan, 1, n)]
      BY <2>3, <2>5, <3>2, Zenon
    <3>5. chan' = SubSeq(chan, n + 1, Len(chan))
      BY <2>5, <3>2, Zenon
    <3>6. Channel!Receive(p, n)
      BY <2>3, <2>4, <3>4, <3>5, Zenon DEF Channel!Receive, chan
    <3> QED
      BY <2>5, <3>3, <3>6, Zenon
  <2> QED
    BY <2>6, <2>7, ZenonT(60)
<1>8. ASSUME NEW p \in Procs, pipe_write_copy(p)
      PROVE  (\E n \in 1..Len(todo[p]) : Channel!Send(p, n)) \/ UNCHANGED <<exists, chan, todo, got>>
  <2> DEFINE n == write_length(Len(todo[p]))
  <2>1. todo[p] \in Seq(Bytes) /\ Len(todo[p]) \in Nat
    BY <1>0 DEF CallsOK
  <2>2. /\ op[p] = "write" /\ length # PAGE_SIZE /\ offset' = offset /\ length' = length + n
        /\ page' = [i \in 0..(PAGE_SIZE - 1) |->
                      IF i \in write_start..(write_start + n - 1)
                      THEN todo[p][i - write_start + 1] ELSE page[i]]
        /\ todo' = [todo EXCEPT ![p] = SubSeq(@, n + 1, Len(@))]
        /\ UNCHANGED <<exists, got>>
    BY <1>8, ZenonT(60) DEF pipe_write_copy, InWrite
  <2>3. /\ n \in 0..(PAGE_SIZE - length) /\ n <= Len(todo[p])
        /\ write_start + n <= PAGE_SIZE /\ (write_start < offset => write_start + n <= offset)
        /\ write_start = IF offset + length < PAGE_SIZE THEN offset + length
                                                        ELSE offset + length - PAGE_SIZE
    BY <1>0, <2>1, <2>2, WriteLength, ZenonT(60)
  <2>4. exists
    BY <1>0, <2>2, Held, Zenon DEF CallsOpen
  <2> HIDE DEF n
  <2>5. exists' /\ chan = Contents /\ chan' = Contents'
    BY <2>2, <2>4, Zenon DEF chan
  <2>6. CASE n = 0
    <3>1. length' = length /\ write_start \in Int
      BY <1>0, <2>2, <2>3, <2>6, SMTT(60) DEF RingOK
    <3>2. page' = page
      <4>1. \A i \in Int : i \notin write_start..(write_start + n - 1)
        BY <2>6, <3>1
      <4> HIDE DEF n
      <4> QED
        BY <1>0, <2>2, <4>1 DEF RingOK
    <3>3. Contents' = Contents
      BY <2>2, <3>1, <3>2, Zenon DEF Contents
    <3>4. SubSeq(todo[p], n + 1, Len(todo[p])) = todo[p]
      BY <2>1, <2>6, SMTT(60)
    <3>5. todo' = todo
      BY <1>0, <2>2, <3>4, Zenon DEF CallsOK
    <3> QED
      BY <2>2, <2>5, <3>3, <3>5, ZenonT(60)
  <2>7. CASE n # 0
    <3>1. n \in 1..(PAGE_SIZE - length) /\ n \in 1..Len(todo[p])
      BY <1>0, <2>1, <2>3, <2>7, SMTT(30) DEF RingOK
    <3>2. Contents' = Contents \o SubSeq(todo[p], 1, n)
      BY <1>0, <2>1, <2>2, <2>3, <3>1, WriteContents, Zenon
    <3>3. Len(Contents) + n <= PAGE_SIZE
      <4>1. Len(Contents) = length
        BY <1>0, ContentsType, Zenon
      <4> QED
        BY <1>0, <3>1, <4>1 DEF RingOK
    <3>4. Len(chan) + n <= PAGE_SIZE
      BY <2>5, <3>3, Zenon
    <3>5. chan' = chan \o SubSeq(todo[p], 1, n)
      BY <2>5, <3>2, Zenon
    <3>6. Channel!Send(p, n)
      BY <2>2, <2>4, <3>4, <3>5, Zenon DEF Channel!Send, chan
    <3> QED
      BY <3>1, <3>6, Zenon
  <2> QED
    BY <2>6, <2>7, Zenon
<1>9. ASSUME UNCHANGED <<pipe, todo, got>>
      PROVE  UNCHANGED <<exists, chan, todo, got>>
  BY <1>3, <1>9, Zenon
<1>10. ASSUME NEW p \in Procs,
              \/ Channel!StartRead(p)
              \/ Channel!FailWrite(p)
              \/ todo'[p] \in Seq(Bytes) /\ Channel!StartWrite(p, todo'[p])
              \/ \E n \in 1..Len(chan) : Channel!Receive(p, n)
              \/ \E n \in 1..Len(todo[p]) : Channel!Send(p, n)
       PROVE  Channel!Next
  BY <1>10, Zenon DEF Channel!Next, chan
<1>11. Channel!Open \/ Channel!Destroy => Channel!Next
  BY Zenon DEF Channel!Next
<1> DEFINE Done == Channel!Next \/ UNCHANGED <<exists, chan, todo, got>>
<1>12. ASSUME NEW p \in Procs, pipe_create(p) \/ pipe_release_reader(p) \/ pipe_release_writer(p)
       PROVE  Done
  BY <1>1, <1>2, <1>11, <1>12, Zenon
<1>13. ASSUME NEW p \in Procs, pipe_write_broken(p) \/ pipe_read_copy(p) \/ pipe_write_copy(p)
       PROVE  Done
  BY <1>6, <1>7, <1>8, <1>10, <1>13, ZenonT(60)
<1>14. ASSUME NEW p \in Readers, NEW size \in ReadSizes, syscall_read(p, size)
       PROVE  Done
  <2>1. p \in Procs
    OBVIOUS
  <2> QED
    BY <1>4, <1>10, <1>14, <2>1, Zenon
<1>15. ASSUME NEW p \in Writers, NEW size \in WriteSizes, NEW data \in [1..size -> Bytes],
              syscall_write(p, data)
       PROVE  Done
  <2>1. p \in Procs
    OBVIOUS
  <2> QED
    BY <1>5, <1>10, <1>15, <2>1, ZenonT(60)
<1>16. ASSUME NEW p \in Procs,
              \/ pipe_countup_dup(p)
              \/ \E c \in Procs : pipe_countup_fork(p, c)
              \/ process_resume(p)
              \/ pipe_read_eof(p) \/ pipe_read_sleep(p) \/ pipe_write_sleep(p)
       PROVE  Done
  <2>1. UNCHANGED <<pipe, todo, got>>
    BY <1>16, Zenon DEF pipe_countup_dup, pipe_countup_fork, process_resume, pipe_read_eof,
          pipe_read_sleep, pipe_write_sleep, calls
  <2> QED
    BY <1>9, <2>1, Zenon
<1> HIDE DEF Done
<1>17. Done
  BY <1>12, <1>13, <1>14, <1>15, <1>16, ZenonT(60) DEF Next, InKernel, pipe_read, pipe_write
<1> QED
  BY <1>17, Zenon DEF Done

\* The ring buffer of pipe_read and pipe_write is a bounded FIFO channel: for
\* every size of the page, every number of readers and writers and every size
\* of their calls, bytes come out as they went in, none lost, repeated or
\* reordered.
THEOREM PipeImplementsChannel == Spec => ChannelSpec
<1>1. Init => Channel!Init
  <2> SUFFICES ASSUME Init PROVE Channel!Init
    OBVIOUS
  <2>1. /\ exists = FALSE
        /\ todo = [p \in Procs |-> <<>>] /\ got = [p \in Procs |-> <<>>]
    BY Zenon DEF Init
  <2> QED
    BY <2>1, Zenon DEF Channel!Init
<1>2. IInv /\ IInv' /\ [Next]_vars => [Channel!Next]_(Channel!chan_vars)
  <2> SUFFICES ASSUME IInv, IInv', [Next]_vars
               PROVE  Channel!Next \/ UNCHANGED Channel!chan_vars
    OBVIOUS
  <2>1. UNCHANGED <<exists, chan, todo, got>> => UNCHANGED Channel!chan_vars
    BY Zenon DEF Channel!chan_vars, chan
  <2>2. CASE Next
    BY <2>1, <2>2, ChannelStep, Zenon
  <2>3. CASE UNCHANGED vars
    <3>1. UNCHANGED <<exists, chan, todo, got>>
      BY <2>3, Zenon DEF vars, pipe, calls, chan, Contents
    <3> QED
      BY <2>1, <3>1, Zenon
  <2> QED
    BY <2>2, <2>3, Zenon
<1> QED
  BY <1>1, <1>2, InitInv, Inductive, PTL DEF Spec, ChannelSpec, Channel!Spec
=============================================================================
