--------------------------- MODULE WorkerPool_proofs ---------------------------
(***************************************************************************)
(* The queue is safe and a FIFO for any number of threads and any size;    *)
(* what the pool does with its queue is what any threads may do with it,   *)
(* and every request is handled once.                                      *)
(***************************************************************************)
EXTENDS WorkerPool, Sequences, FiniteSetTheorems, TLAPS

-----------------------------------------------------------------------------
(* The queue.                                                                *)

\* The places of threads that have a value, and that have a place to fill or to
\* give back.
Holding == {"post_used", "lock_consume", "copy_out"}
Freeing == {"lock_produce", "copy_in", "post_empty"}

One(place, places) == IF place \in places THEN 1 ELSE 0

\* The semaphores and the threads between them account for every slot, and the
\* two ends of the ring are as far apart as values are held.
QInv ==
  /\ empty_ \in Nat /\ used_ \in Nat
  /\ storage_ \in [0 .. Size - 1 -> Values]
  /\ produce_at_ \in 0 .. Size - 1 /\ consume_at_ \in 0 .. Size - 1
  /\ at \in [Threads -> Places] /\ val \in [Threads -> Values]
  /\ Held + Free = Size
  /\ produce_at_ = Wrapped(consume_at_ + Held)
  /\ \A t, u \in At({"copy_in"}) : t = u
  /\ \A t, u \in At({"copy_out"}) : t = u

-----------------------------------------------------------------------------
\* One counts.
LEMMA OneInt == ASSUME NEW place, NEW places PROVE One(place, places) \in Int
<1> QED
  BY DEF One

CountAt(f, places) == Cardinality({u \in Threads : f[u] \in places})

\* How many threads are at some places changes by the one that moves.
LEMMA CountMoves ==
  ASSUME NEW f, NEW g, NEW t \in Threads, NEW places,
         \A u \in Threads \ {t} : g[u] = f[u]
  PROVE  /\ CountAt(f, places) \in Nat
         /\ CountAt(g, places) = CountAt(f, places) + One(g[t], places) - One(f[t], places)
<1> DEFINE A == {u \in Threads : f[u] \in places}
           B == {u \in Threads : g[u] \in places}
<1>1. IsFiniteSet(A) /\ Cardinality(A) \in Nat
  <2>1. IsFiniteSet(A)
    BY QueueAssumption, FS_Subset
  <2> QED
    BY <2>1, FS_CardinalityType
<1>2. t \in A <=> f[t] \in places
  OBVIOUS
<1>3. CountAt(f, places) = Cardinality(A) /\ CountAt(g, places) = Cardinality(B)
  BY DEF CountAt
<1>4. Cardinality(B) = Cardinality(A) + One(g[t], places) - One(f[t], places)
  <2>1. CASE g[t] \in places /\ f[t] \notin places
    <3>1. B = A \cup {t}
      BY <2>1
    <3> HIDE DEF A, B
    <3>2. Cardinality(B) = Cardinality(A) + 1
      BY <1>1, <1>2, <2>1, <3>1, FS_AddElement
    <3> QED
      BY <1>1, <2>1, <3>2 DEF One
  <2>2. CASE g[t] \notin places /\ f[t] \in places
    <3>1. B = A \ {t}
      BY <2>2
    <3> HIDE DEF A, B
    <3>2. Cardinality(B) = Cardinality(A) - 1
      BY <1>1, <1>2, <2>2, <3>1, FS_RemoveElement
    <3> QED
      BY <1>1, <2>2, <3>2 DEF One
  <2>3. CASE g[t] \in places <=> f[t] \in places
    <3>1. B = A
      BY <2>3
    <3> HIDE DEF A, B
    <3> QED
      BY <1>1, <2>3, <3>1 DEF One
  <2> QED
    BY <2>1, <2>2, <2>3
<1> HIDE DEF A, B
<1>5. CountAt(f, places) \in Nat
  BY <1>1, <1>3
<1>6. CountAt(g, places) = CountAt(f, places) + One(g[t], places) - One(f[t], places)
  BY <1>3, <1>4
<1> QED
  BY <1>5, <1>6

\* What a step from one place to another does to Held and Free.
LEMMA GoCounts ==
  ASSUME QInv, NEW t \in Threads, NEW from, NEW to, Go(t, from, to),
         used_' \in Int, empty_' \in Int
  PROVE  /\ Held \in Nat /\ used_ <= Held /\ Free \in Nat /\ empty_ <= Free
         /\ used_' <= Held' /\ empty_' <= Free'
         /\ Held' = Held + (used_' - used_) + One(to, Holding) - One(from, Holding)
         /\ Free' = Free + (empty_' - empty_) + One(to, Freeing) - One(from, Freeing)
<1>1. at' = [at EXCEPT ![t] = to] /\ at[t] = from /\ DOMAIN at = Threads
  BY DEF Go, QInv
<1>2. /\ Held = used_ + CountAt(at, Holding) /\ Held' = used_' + CountAt(at', Holding)
      /\ Free = empty_ + CountAt(at, Freeing) /\ Free' = empty_' + CountAt(at', Freeing)
  BY DEF Held, Free, At, CountAt, Holding, Freeing
<1>3. ASSUME NEW places
      PROVE  /\ CountAt(at, places) \in Nat
             /\ CountAt(at', places) = CountAt(at, places) + One(to, places) - One(from, places)
  <2>1. at'[t] = to /\ \A u \in Threads \ {t} : at'[u] = at[u]
    BY <1>1
  <2>2. /\ CountAt(at, places) \in Nat
        /\ CountAt(at', places) = CountAt(at, places) + One(at'[t], places) - One(at[t], places)
    BY <2>1, CountMoves, ZenonT(60)
  <2> QED
    BY <1>1, <2>1, <2>2
<1>5. empty_ \in Nat /\ used_ \in Nat
  BY DEF QInv
<1>4. ASSUME NEW places PROVE CountAt(at', places) \in Nat
  <2>1. \A u \in Threads \ {t} : at[u] = at'[u]
    BY <1>1
  <2> QED
    BY <2>1, CountMoves
<1>6. /\ CountAt(at, Holding) \in Nat /\ CountAt(at, Freeing) \in Nat
      /\ CountAt(at', Holding) \in Nat /\ CountAt(at', Freeing) \in Nat
  BY <1>3, <1>4
<1>7. One(to, Holding) \in Int /\ One(from, Holding) \in Int /\ One(to, Freeing) \in Int /\ One(from, Freeing) \in Int
  BY OneInt
<1>8. Held' = used_' + (CountAt(at, Holding) + One(to, Holding) - One(from, Holding))
  BY <1>2, <1>3
<1>9. Free' = empty_' + (CountAt(at, Freeing) + One(to, Freeing) - One(from, Freeing))
  BY <1>2, <1>3
<1> QED
  BY <1>2, <1>5, <1>6, <1>7, <1>8, <1>9

\* Threads are out, and every slot is free.
LEMMA QInitInv == QInit => QInv
<1> SUFFICES ASSUME QInit PROVE QInv
  OBVIOUS
<1>1. /\ At(Holding) = {} /\ At(Freeing) = {}
      /\ At({"copy_in"}) = {} /\ At({"copy_out"}) = {}
  BY DEF QInit, At, Holding, Freeing
<1>2. Held = used_ + Cardinality(At(Holding)) /\ Free = empty_ + Cardinality(At(Freeing))
  BY DEF Held, Free, Holding, Freeing
<1>3. Held = 0 /\ Free = Size
  <2>1. Cardinality(At(Holding)) = 0 /\ Cardinality(At(Freeing)) = 0
    BY <1>1, FS_EmptySet
  <2> QED
    BY <1>2, <2>1, QueueAssumption DEF QInit
<1>4. at \in [Threads -> Places] /\ val \in [Threads -> Values]
  BY QueueAssumption DEF QInit, Places
<1>5. /\ empty_ \in Nat /\ used_ \in Nat
      /\ storage_ \in [0 .. Size - 1 -> Values]
      /\ produce_at_ \in 0 .. Size - 1 /\ consume_at_ \in 0 .. Size - 1
  BY QueueAssumption DEF QInit
<1>6. Held + Free = Size /\ produce_at_ = Wrapped(consume_at_ + Held)
  BY <1>3, QueueAssumption DEF QInit, Wrapped
<1> QED
  BY <1>1, <1>4, <1>5, <1>6 DEF QInv

\* A step that moves neither end of the ring and no value into or out of it
\* keeps the invariant, if it respects the mutexes.
LEMMA StayInv ==
  ASSUME QInv, NEW t \in Threads, NEW from, NEW to \in Places, Go(t, from, to),
         used_' \in Nat, empty_' \in Nat, Held' = Held, Free' = Free,
         storage_' \in [0 .. Size - 1 -> Values], val' \in [Threads -> Values],
         produce_at_' = produce_at_, consume_at_' = consume_at_,
         to = "copy_in" => At({"copy_in"}) = {},
         to = "copy_out" => At({"copy_out"}) = {}
  PROVE  QInv'
<1>1. at' = [at EXCEPT ![t] = to] /\ at \in [Threads -> Places]
  BY DEF Go, QInv
<1>2. at' \in [Threads -> Places]
  BY <1>1
<1>3. \A u, v \in At({"copy_in"})' : u = v
  BY <1>1 DEF At, QInv
<1>4. \A u, v \in At({"copy_out"})' : u = v
  BY <1>1 DEF At, QInv
<1>5. (Held + Free)' = Size
  BY DEF QInv
<1>6. produce_at_' = Wrapped(consume_at_ + Held)'
  BY DEF Wrapped, QInv
<1>7. produce_at_' \in 0 .. Size - 1 /\ consume_at_' \in 0 .. Size - 1
  BY DEF QInv
<1> QED
  BY <1>2, <1>3, <1>4, <1>5, <1>6, <1>7 DEF QInv

\* Of two places, which count as Held and which as Free.
LEMMA OneOf ==
  /\ One("out", Holding) = 0 /\ One("out", Freeing) = 0
  /\ One("wait_empty", Holding) = 0 /\ One("wait_empty", Freeing) = 0
  /\ One("wait_used", Holding) = 0 /\ One("wait_used", Freeing) = 0
  /\ One("lock_produce", Holding) = 0 /\ One("lock_produce", Freeing) = 1
  /\ One("copy_in", Holding) = 0 /\ One("copy_in", Freeing) = 1
  /\ One("post_empty", Holding) = 0 /\ One("post_empty", Freeing) = 1
  /\ One("post_used", Holding) = 1 /\ One("post_used", Freeing) = 0
  /\ One("lock_consume", Holding) = 1 /\ One("lock_consume", Freeing) = 0
  /\ One("copy_out", Holding) = 1 /\ One("copy_out", Freeing) = 0
<1> QED
  BY DEF One, Holding, Freeing

\* A value or a place is handed over between a semaphore and a thread, or a
\* call begins or is broken off: the ends of the ring stay where they are.
LEMMA HandOver ==
  ASSUME QInv, NEW t \in Threads,
         \/ \E v \in Values : Produce(t, v)
         \/ Consume(t) \/ WaitEmpty(t) \/ WaitUsed(t) \/ PostUsed(t) \/ PostEmpty(t)
         \/ LockProduce(t) \/ LockConsume(t) \/ ThrowIn(t) \/ ThrowOut(t)
  PROVE  QInv' /\ Held' = Held
<1> USE DEF Places
<1>0. empty_ \in Nat /\ used_ \in Nat
  BY DEF QInv
<1>1. /\ produce_at_' = produce_at_ /\ consume_at_' = consume_at_
      /\ storage_' \in [0 .. Size - 1 -> Values] /\ val' \in [Threads -> Values]
  BY DEF QInv, ring, Produce, Consume, WaitEmpty, WaitUsed, PostUsed, PostEmpty,
         LockProduce, LockConsume, ThrowIn, ThrowOut
<1>2. CASE \E v \in Values : Produce(t, v)
  <2>1. Go(t, "out", "wait_empty") /\ used_' = used_ /\ empty_' = empty_
    BY <1>2 DEF Produce
  <2>2. Held' = Held /\ Free' = Free
    BY <1>0, <2>1, GoCounts, OneOf
  <2> QED
    BY <1>0, <1>1, <2>1, <2>2, StayInv
<1>3. CASE Consume(t)
  <2>1. Go(t, "out", "wait_used") /\ used_' = used_ /\ empty_' = empty_
    BY <1>3 DEF Consume
  <2>2. Held' = Held /\ Free' = Free
    BY <1>0, <2>1, GoCounts, OneOf
  <2> QED
    BY <1>0, <1>1, <2>1, <2>2, StayInv
<1>4. CASE WaitEmpty(t)
  <2>1. /\ Go(t, "wait_empty", "lock_produce")
        /\ used_' = used_ /\ empty_ > 0 /\ empty_' = empty_ - 1
    BY <1>4 DEF WaitEmpty
  <2>2. Held' = Held /\ Free' = Free
    BY <1>0, <2>1, GoCounts, OneOf
  <2> QED
    BY <1>0, <1>1, <2>1, <2>2, StayInv
<1>5. CASE WaitUsed(t)
  <2>1. /\ Go(t, "wait_used", "lock_consume")
        /\ empty_' = empty_ /\ used_ > 0 /\ used_' = used_ - 1
    BY <1>5 DEF WaitUsed
  <2>2. Held' = Held /\ Free' = Free
    BY <1>0, <2>1, GoCounts, OneOf
  <2> QED
    BY <1>0, <1>1, <2>1, <2>2, StayInv
<1>6. CASE PostUsed(t)
  <2>1. Go(t, "post_used", "out") /\ used_' = used_ + 1 /\ empty_' = empty_
    BY <1>6 DEF PostUsed
  <2>2. Held' = Held /\ Free' = Free
    BY <1>0, <2>1, GoCounts, OneOf
  <2> QED
    BY <1>0, <1>1, <2>1, <2>2, StayInv
<1>7. CASE PostEmpty(t)
  <2>1. Go(t, "post_empty", "out") /\ used_' = used_ /\ empty_' = empty_ + 1
    BY <1>7 DEF PostEmpty
  <2>2. Held' = Held /\ Free' = Free
    BY <1>0, <2>1, GoCounts, OneOf
  <2> QED
    BY <1>0, <1>1, <2>1, <2>2, StayInv
<1>8. CASE LockProduce(t)
  <2>1. /\ Go(t, "lock_produce", "copy_in") /\ used_' = used_ /\ empty_' = empty_
        /\ At({"copy_in"}) = {}
    BY <1>8 DEF LockProduce
  <2>2. Held' = Held /\ Free' = Free
    BY <1>0, <2>1, GoCounts, OneOf
  <2> QED
    BY <1>0, <1>1, <2>1, <2>2, StayInv
<1>9. CASE LockConsume(t)
  <2>1. /\ Go(t, "lock_consume", "copy_out") /\ used_' = used_ /\ empty_' = empty_
        /\ At({"copy_out"}) = {}
    BY <1>9 DEF LockConsume
  <2>2. Held' = Held /\ Free' = Free
    BY <1>0, <2>1, GoCounts, OneOf
  <2> QED
    BY <1>0, <1>1, <2>1, <2>2, StayInv
<1>10. CASE ThrowIn(t)
  <2>1. Go(t, "copy_in", "out") /\ used_' = used_ /\ empty_' = empty_ + 1
    BY <1>10 DEF ThrowIn
  <2>2. Held' = Held /\ Free' = Free
    BY <1>0, <2>1, GoCounts, OneOf
  <2> QED
    BY <1>0, <1>1, <2>1, <2>2, StayInv
<1>11. CASE ThrowOut(t)
  <2>1. Go(t, "copy_out", "out") /\ used_' = used_ + 1 /\ empty_' = empty_
    BY <1>11 DEF ThrowOut
  <2>2. Held' = Held /\ Free' = Free
    BY <1>0, <2>1, GoCounts, OneOf
  <2> QED
    BY <1>0, <1>1, <2>1, <2>2, StayInv
<1> QED
  BY <1>2, <1>3, <1>4, <1>5, <1>6, <1>7, <1>8, <1>9, <1>10, <1>11

\* A value is copied in: one more is held, one place fewer is free, and the end
\* of the ring that is produced at advances.
LEMMA CopyInInv ==
  ASSUME QInv, NEW t \in Threads, CopyIn(t)
  PROVE  QInv' /\ Held \in Nat /\ Held < Size /\ Held' = Held + 1
<1> USE DEF Places
<1>1. /\ Go(t, "copy_in", "post_used") /\ used_' = used_ /\ empty_' = empty_
      /\ consume_at_' = consume_at_ /\ val' = val
      /\ produce_at_' = Advanced(produce_at_)
      /\ storage_' = [storage_ EXCEPT ![produce_at_] = val[t]]
  BY DEF CopyIn
<1>2. empty_ \in Nat /\ used_ \in Nat /\ Held + Free = Size
  BY DEF QInv
<1>3. /\ Held \in Nat /\ Free \in Nat /\ empty_' <= Free'
      /\ Held' = Held + 1 /\ Free' = Free - 1
  BY <1>1, <1>2, GoCounts, OneOf
<1>4. Held < Size /\ Held' + Free' = Size
  BY <1>1, <1>2, <1>3, QueueAssumption
<1>5. at' = [at EXCEPT ![t] = "post_used"] /\ at \in [Threads -> Places]
  BY <1>1 DEF Go, QInv
<1>6. \A u, v \in At({"copy_in"})' : u = v
  BY <1>5 DEF At, QInv
<1>7. \A u, v \in At({"copy_out"})' : u = v
  BY <1>5 DEF At, QInv
<1>8. at' \in [Threads -> Places]
  BY <1>5
<1>9. val' \in [Threads -> Values] /\ storage_' \in [0 .. Size - 1 -> Values]
  BY <1>1 DEF QInv
<1>10. produce_at_' \in 0 .. Size - 1 /\ consume_at_' \in 0 .. Size - 1
  BY <1>1, QueueAssumption DEF QInv, Advanced
<1>11. produce_at_' = Wrapped(consume_at_' + Held')
  BY <1>1, <1>3, <1>4, QueueAssumption DEF QInv, Advanced, Wrapped
<1>12. (produce_at_ = Wrapped(consume_at_ + Held))'
  BY <1>11 DEF Wrapped
<1>13. (Held + Free = Size)'
  BY <1>4
<1>14. (empty_ \in Nat /\ used_ \in Nat)'
  BY <1>1, <1>2
<1> QED
  BY <1>3, <1>4, <1>6, <1>7, <1>8, <1>9, <1>10, <1>12, <1>13, <1>14 DEF QInv

\* A value is copied out: the other way round.
LEMMA CopyOutInv ==
  ASSUME QInv, NEW t \in Threads, CopyOut(t)
  PROVE  QInv' /\ Held \in Nat \ {0} /\ Held' = Held - 1
<1> USE DEF Places
<1>1. /\ Go(t, "copy_out", "post_empty") /\ used_' = used_ /\ empty_' = empty_
      /\ produce_at_' = produce_at_ /\ storage_' = storage_
      /\ consume_at_' = Advanced(consume_at_)
      /\ val' = [val EXCEPT ![t] = storage_[consume_at_]]
  BY DEF CopyOut
<1>2. empty_ \in Nat /\ used_ \in Nat /\ Held + Free = Size
  BY DEF QInv
<1>3. /\ Held \in Nat /\ Free \in Nat /\ used_' <= Held'
      /\ Held' = Held - 1 /\ Free' = Free + 1
  BY <1>1, <1>2, GoCounts, OneOf
<1>4. Held > 0 /\ Held <= Size /\ Held' + Free' = Size
  BY <1>1, <1>2, <1>3, QueueAssumption
<1>5. at' = [at EXCEPT ![t] = "post_empty"] /\ at \in [Threads -> Places]
  BY <1>1 DEF Go, QInv
<1>6. \A u, v \in At({"copy_in"})' : u = v
  BY <1>5 DEF At, QInv
<1>7. \A u, v \in At({"copy_out"})' : u = v
  BY <1>5 DEF At, QInv
<1>8. at' \in [Threads -> Places]
  BY <1>5
<1>9. val' \in [Threads -> Values] /\ storage_' \in [0 .. Size - 1 -> Values]
  BY <1>1 DEF QInv
<1>10. produce_at_' \in 0 .. Size - 1 /\ consume_at_' \in 0 .. Size - 1
  BY <1>1, QueueAssumption DEF QInv, Advanced
<1>11. produce_at_' = Wrapped(consume_at_' + Held')
  BY <1>1, <1>3, <1>4, QueueAssumption DEF QInv, Advanced, Wrapped
<1>12. (produce_at_ = Wrapped(consume_at_ + Held))'
  BY <1>11 DEF Wrapped
<1>13. (Held + Free = Size)'
  BY <1>4
<1>14. (empty_ \in Nat /\ used_ \in Nat)'
  BY <1>1, <1>2
<1> QED
  BY <1>3, <1>4, <1>6, <1>7, <1>8, <1>9, <1>10, <1>12, <1>13, <1>14 DEF QInv

\* Every step keeps the invariant.
LEMMA QNextInv == QInv /\ [QNext]_qvars => QInv'
<1> SUFFICES ASSUME QInv, [QNext]_qvars PROVE QInv'
  OBVIOUS
<1>1. CASE UNCHANGED qvars
  BY <1>1 DEF qvars, ring, QInv, Held, Free, At, Wrapped
<1>2. CASE QNext
  <2>1. PICK t \in Threads :
          Consume(t) \/ GoOn(t) \/ Throw(t) \/ \E v \in Values : Produce(t, v)
    BY <1>2 DEF QNext
  <2>2. CASE CopyIn(t)
    BY <2>2, CopyInInv
  <2>3. CASE CopyOut(t)
    BY <2>3, CopyOutInv
  <2>4. CASE ~CopyIn(t) /\ ~CopyOut(t)
    BY <2>1, <2>4, HandOver DEF GoOn, Throw
  <2> QED
    BY <2>2, <2>3, <2>4
<1> QED
  BY <1>1, <1>2

-----------------------------------------------------------------------------
\* A thread at one of the places is counted.
LEMMA Counted ==
  ASSUME NEW f, NEW t \in Threads, NEW places, f[t] \in places
  PROVE  CountAt(f, places) \in Nat \ {0}
<1> DEFINE A == {u \in Threads : f[u] \in places}
<1>1. IsFiniteSet(A) /\ t \in A
  BY QueueAssumption, FS_Subset
<1> HIDE DEF A
<1>2. Cardinality(A) \in Nat \ {0}
  BY <1>1, FS_CardinalityType, FS_EmptySet
<1>3. CountAt(f, places) = Cardinality(A)
  BY DEF CountAt, A
<1> QED
  BY <1>2, <1>3

\* What the invariant says of the counts.
LEMMA CountsOfInv ==
  ASSUME QInv
  PROVE  /\ Held \in Nat /\ Free \in Nat /\ used_ <= Held /\ empty_ <= Free
         /\ \A t \in Threads : at[t] \in Holding => Held > 0
         /\ \A t \in Threads : at[t] \in Freeing => Free > 0
<1>1. Held = used_ + CountAt(at, Holding) /\ Free = empty_ + CountAt(at, Freeing)
  BY DEF Held, Free, At, CountAt, Holding, Freeing
<1>2. ASSUME NEW places PROVE CountAt(at, places) \in Nat
  <2>1. {u \in Threads : at[u] \in places} \in SUBSET Threads
    OBVIOUS
  <2>2. Cardinality({u \in Threads : at[u] \in places}) \in Nat
    BY <2>1, QueueAssumption, FS_Subset, FS_CardinalityType
  <2> QED
    BY <2>2 DEF CountAt
<1>3. CountAt(at, Holding) \in Nat /\ CountAt(at, Freeing) \in Nat
  BY <1>2
<1>4. empty_ \in Nat /\ used_ \in Nat
  BY DEF QInv
<1>5. ASSUME NEW t \in Threads, at[t] \in Holding PROVE Held > 0
  <2>1. CountAt(at, Holding) \in Nat \ {0}
    BY <1>5, Counted
  <2> QED
    BY <1>1, <1>4, <2>1
<1>6. ASSUME NEW t \in Threads, at[t] \in Freeing PROVE Free > 0
  <2>1. CountAt(at, Freeing) \in Nat \ {0}
    BY <1>6, Counted
  <2> QED
    BY <1>1, <1>4, <2>1
<1>7. Held \in Nat /\ Free \in Nat /\ used_ <= Held /\ empty_ <= Free
  BY <1>1, <1>3, <1>4
<1> QED
  BY <1>5, <1>6, <1>7

\* The two copies are at different slots: the one leaves a place free, the other
\* a value held.
LEMMA InvIsSafe == QInv => QTypeOK /\ NoRace
<1> SUFFICES ASSUME QInv PROVE QTypeOK /\ NoRace
  OBVIOUS
<1>1. /\ Held \in Nat /\ Free \in Nat /\ used_ <= Held /\ empty_ <= Free
      /\ \A t \in Threads : at[t] \in Holding => Held > 0
      /\ \A t \in Threads : at[t] \in Freeing => Free > 0
  BY CountsOfInv
<1>2. empty_ \in 0 .. Size /\ used_ \in 0 .. Size
  BY <1>1, QueueAssumption DEF QInv
<1>3. QTypeOK
  BY <1>2 DEF QInv, QTypeOK
<1>4. ASSUME At({"copy_in"}) # {}, At({"copy_out"}) # {} PROVE produce_at_ # consume_at_
  <2>1. Held > 0
    BY <1>1, <1>4 DEF At, Holding
  <2>2. Free > 0
    BY <1>1, <1>4 DEF At, Freeing
  <2> QED
    BY <1>1, <2>1, <2>2, QueueAssumption DEF QInv, Wrapped
<1>5. NoRace
  BY <1>4 DEF NoRace, QInv
<1> QED
  BY <1>3, <1>5

\* Reachable states satisfy the invariant.
LEMMA QInvariant == QSpec => []QInv
<1> QED
  BY QInitInv, QNextInv, PTL DEF QSpec

\* The semaphores never count more than there are slots and the ends of the ring
\* stay inside it, for any number of threads, any size and whichever copies
\* throw (pcqueue.hh:31-101).
THEOREM QueueTypes == QSpec => []QTypeOK
<1> QED
  BY QInvariant, InvIsSafe, PTL

\* No slot is written while another thread reads or writes it, nor read by two
\* threads, for any number of producers and consumers (pcqueue.hh:46, :63).
THEOREM QueueIsSafe == QSpec => []NoRace
<1> QED
  BY QInvariant, InvIsSafe, PTL

-----------------------------------------------------------------------------
\* A slot that holds a value is not the one written next.
LEMMA HeldSlots ==
  ASSUME NEW c \in 0 .. Size - 1, NEW h \in 0 .. Size, NEW k \in 1 .. h
  PROVE  /\ Wrapped(c + k - 1) \in 0 .. Size - 1
         /\ h < Size => Wrapped(c + k - 1) # Wrapped(c + h)
         /\ k > 1 => Wrapped(Advanced(c) + (k - 1) - 1) = Wrapped(c + k - 1)
         /\ Wrapped(c + 1 - 1) = c
<1> QED
  BY QueueAssumption DEF Wrapped, Advanced

\* A step that hands over leaves the values held as they are.
LEMMA QueueStays ==
  ASSUME QInv, NEW t \in Threads,
         \/ \E v \in Values : Produce(t, v)
         \/ Consume(t) \/ WaitEmpty(t) \/ WaitUsed(t) \/ PostUsed(t) \/ PostEmpty(t)
         \/ LockProduce(t) \/ LockConsume(t) \/ ThrowIn(t) \/ ThrowOut(t)
  PROVE  Queue' = Queue
<1>1. Held' = Held /\ consume_at_' = consume_at_
  BY HandOver DEF ring, Produce, Consume, WaitEmpty, WaitUsed, PostUsed, PostEmpty,
         LockProduce, LockConsume, ThrowIn, ThrowOut
<1>2. CASE ~ThrowIn(t)
  <2>1. storage_' = storage_
    BY <1>2 DEF ring, Produce, Consume, WaitEmpty, WaitUsed, PostUsed, PostEmpty,
         LockProduce, LockConsume, ThrowOut
  <2> QED
    BY <1>1, <2>1 DEF Queue, Wrapped
<1>3. CASE ThrowIn(t)
  <2>1. PICK junk \in Values : storage_' = [storage_ EXCEPT ![produce_at_] = junk]
    BY <1>3 DEF ThrowIn
  <2>2. Held \in Nat /\ Free \in Nat /\ Free > 0
    BY <1>3, CountsOfInv DEF ThrowIn, Go, Freeing
  <2>3. Held \in 0 .. Size /\ Held < Size /\ consume_at_ \in 0 .. Size - 1
    BY <2>2, QueueAssumption DEF QInv
  <2>4. produce_at_ = Wrapped(consume_at_ + Held) /\ storage_ \in [0 .. Size - 1 -> Values]
    BY DEF QInv
  <2>5. ASSUME NEW k \in 1 .. Held
        PROVE  storage_'[Wrapped(consume_at_ + k - 1)] = storage_[Wrapped(consume_at_ + k - 1)]
    <3>1. Wrapped(consume_at_ + k - 1) # produce_at_
      BY <2>3, <2>4, HeldSlots
    <3> QED
      BY <2>1, <2>4, <3>1
  <2>6. Queue' = [k \in 1 .. Held' |-> storage_'[Wrapped(consume_at_' + k - 1)]]
    BY DEF Queue, Wrapped
  <2> QED
    BY <1>1, <2>5, <2>6 DEF Queue
<1> QED
  BY <1>2, <1>3

QueueIsHeld ==
  /\ Queue \in Seq(Values) /\ Len(Queue) = Held
  /\ \A k \in 1 .. Held : Queue[k] = storage_[Wrapped(consume_at_ + k - 1)]

\* The values held are a sequence, slot by slot.
LEMMA QueueIs == QInv => QueueIsHeld
<1> SUFFICES ASSUME QInv PROVE QueueIsHeld
  OBVIOUS
<1>1. Held \in Nat /\ Free \in Nat
  BY CountsOfInv
<1>2. Held \in 0 .. Size /\ consume_at_ \in 0 .. Size - 1
  BY <1>1, QueueAssumption DEF QInv
<1>3. \A k \in 1 .. Held : storage_[Wrapped(consume_at_ + k - 1)] \in Values
  BY <1>2, HeldSlots DEF QInv
<1> QED
  BY <1>1, <1>3 DEF Queue, QueueIsHeld

\* A sequence that is another and one element more is that appended to it.
LEMMA IsAppend ==
  ASSUME NEW S, NEW q \in Seq(S), NEW r \in Seq(S), NEW x \in S,
         Len(r) = Len(q) + 1, \A k \in 1 .. Len(q) : r[k] = q[k], r[Len(r)] = x
  PROVE  r = Append(q, x)
<1> QED
  OBVIOUS

\* A sequence that is another from its second element on is its tail.
LEMMA IsTail ==
  ASSUME NEW S, NEW q \in Seq(S), NEW r \in Seq(S),
         Len(q) # 0, Len(r) = Len(q) - 1, \A k \in 1 .. Len(r) : r[k] = q[k + 1]
  PROVE  q # <<>> /\ r = Tail(q)
<1> QED
  OBVIOUS

\* A copy in appends.
LEMMA CopyInAppends ==
  ASSUME QInv, NEW t \in Threads, CopyIn(t)
  PROVE  Queue' = Append(Queue, val[t]) /\ Len(Queue) < Size
<1>1. QInv' /\ Held \in Nat /\ Held < Size /\ Held' = Held + 1
  BY CopyInInv
<1>2. QueueIsHeld /\ QueueIsHeld'
  BY <1>1, QueueIs, PTL
<1>3. /\ Queue' \in Seq(Values) /\ Len(Queue') = Held'
      /\ \A k \in 1 .. Held' : Queue'[k] = storage_'[Wrapped(consume_at_' + k - 1)]
  BY <1>2 DEF QueueIsHeld, Wrapped
<1>4. /\ consume_at_' = consume_at_ /\ consume_at_ \in 0 .. Size - 1
      /\ storage_' = [storage_ EXCEPT ![produce_at_] = val[t]]
      /\ storage_ \in [0 .. Size - 1 -> Values] /\ val[t] \in Values
      /\ produce_at_ \in 0 .. Size - 1 /\ produce_at_ = Wrapped(consume_at_ + Held)
  BY DEF QInv, CopyIn
<1>5. Held \in 0 .. Size
  BY <1>1, QueueAssumption
<1>6. ASSUME NEW k \in 1 .. Held PROVE Queue'[k] = Queue[k]
  <2>1. Wrapped(consume_at_ + k - 1) # produce_at_
    BY <1>1, <1>4, <1>5, HeldSlots
  <2>2. storage_'[Wrapped(consume_at_ + k - 1)] = storage_[Wrapped(consume_at_ + k - 1)]
    BY <1>4, <2>1
  <2>3. k \in 1 .. Held'
    BY <1>1
  <2> QED
    BY <1>2, <1>3, <1>4, <2>2, <2>3 DEF QueueIsHeld
<1>7. Queue'[Held + 1] = val[t]
  <2>1. Held + 1 \in 1 .. Held' /\ consume_at_ + (Held + 1) - 1 = consume_at_ + Held
    BY <1>1, <1>4
  <2>2. Queue'[Held + 1] = storage_'[Wrapped(consume_at_ + (Held + 1) - 1)]
    BY <1>3, <1>4, <2>1
  <2> QED
    BY <1>4, <2>1, <2>2
<1>8. Queue \in Seq(Values) /\ Len(Queue) = Held
  BY <1>2 DEF QueueIsHeld
<1>9. Queue' = Append(Queue, val[t])
  BY <1>1, <1>3, <1>4, <1>6, <1>7, <1>8, IsAppend
<1> QED
  BY <1>1, <1>8, <1>9

\* A copy out takes the head.
LEMMA CopyOutTakes ==
  ASSUME QInv, NEW t \in Threads, CopyOut(t)
  PROVE  Queue # <<>> /\ Queue' = Tail(Queue) /\ Head(Queue) = storage_[consume_at_]
<1>1. QInv' /\ Held \in Nat \ {0} /\ Held' = Held - 1
  BY CopyOutInv
<1>2. QueueIsHeld /\ QueueIsHeld'
  BY <1>1, QueueIs, PTL
<1>3. /\ Queue' \in Seq(Values) /\ Len(Queue') = Held'
      /\ \A k \in 1 .. Held' : Queue'[k] = storage_'[Wrapped(consume_at_' + k - 1)]
  BY <1>2 DEF QueueIsHeld, Wrapped
<1>4. /\ storage_' = storage_ /\ consume_at_' = Advanced(consume_at_)
      /\ consume_at_ \in 0 .. Size - 1
  BY DEF QInv, CopyOut
<1>5. Held \in 0 .. Size
  <2>1. Free \in Nat /\ Held + Free = Size
    BY CountsOfInv DEF QInv
  <2> QED
    BY <1>1, <2>1, QueueAssumption
<1>6. /\ Queue \in Seq(Values) /\ Len(Queue) = Held
      /\ \A k \in 1 .. Held : Queue[k] = storage_[Wrapped(consume_at_ + k - 1)]
  BY <1>2 DEF QueueIsHeld
<1>7. ASSUME NEW k \in 1 .. Held' PROVE Queue'[k] = Queue[k + 1]
  <2>1. k + 1 \in 1 .. Held /\ k + 1 > 1 /\ (k + 1) - 1 = k
    BY <1>1
  <2>2. Wrapped(Advanced(consume_at_) + ((k + 1) - 1) - 1) = Wrapped(consume_at_ + (k + 1) - 1)
    BY <1>4, <1>5, <2>1, HeldSlots
  <2> QED
    BY <1>3, <1>4, <1>6, <2>1, <2>2
<1>8. Queue # <<>> /\ Queue' = Tail(Queue)
  BY <1>1, <1>3, <1>6, <1>7, IsTail
<1>9. Head(Queue) = storage_[consume_at_]
  <2>1. 1 \in 1 .. Held /\ Wrapped(consume_at_ + 1 - 1) = consume_at_
    BY <1>1, <1>4, <1>5, HeldSlots
  <2>2. Queue[1] = storage_[consume_at_]
    BY <1>6, <2>1
  <2> QED
    BY <1>1, <1>6, <2>2
<1> QED
  BY <1>8, <1>9

-----------------------------------------------------------------------------
\* The place of the thread that moves decides what it is in.
LEMMA OpMoves ==
  ASSUME QInv, NEW t \in Threads, NEW from, NEW to, Go(t, from, to)
  PROVE  /\ OpAt(at[t]) = OpAt(from)
         /\ [u \in Threads |-> OpAt(at'[u])]
              = [[u \in Threads |-> OpAt(at[u])] EXCEPT ![t] = OpAt(to)]
<1> QED
  BY DEF Go, QInv

\* What a call is in at each place.
LEMMA OpOf ==
  /\ OpAt("out") = "none"
  /\ OpAt("wait_empty") = "put" /\ OpAt("lock_produce") = "put" /\ OpAt("copy_in") = "put"
  /\ OpAt("wait_used") = "take" /\ OpAt("lock_consume") = "take" /\ OpAt("copy_out") = "take"
  /\ OpAt("post_used") = "done" /\ OpAt("post_empty") = "done"
<1> QED
  BY DEF OpAt

\* Every step begins a call, ends one, is where one takes effect, or is none.
LEMMA QueueStep ==
  ASSUME QInv, [QNext]_qvars
  PROVE  [Fifo!BNext]_(Fifo!bvars)
<1> DEFINE ops == [u \in Threads |-> OpAt(at[u])]
<1>1. CASE UNCHANGED qvars
  <2>1. Queue' = Queue /\ ops' = ops /\ val' = val
    BY <1>1 DEF qvars, ring, Queue, Held, At, Wrapped
  <2> QED
    BY <2>1 DEF Fifo!bvars
<1>2. CASE QNext
  <2>1. PICK t \in Threads :
          Consume(t) \/ GoOn(t) \/ Throw(t) \/ \E v \in Values : Produce(t, v)
    BY <1>2 DEF QNext
  <2>2. CASE \E v \in Values : Produce(t, v)
    <3>1. PICK v \in Values : Produce(t, v)
      BY <2>2
    <3>2. Queue' = Queue
      BY <2>2, QueueStays
    <3>3. Go(t, "out", "wait_empty") /\ val' = [val EXCEPT ![t] = v]
      BY <3>1 DEF Produce
    <3>4. ops[t] = "none" /\ ops' = [ops EXCEPT ![t] = "put"]
      BY <3>3, OpMoves, OpOf
    <3>5. Fifo!Begin(t)
      BY <3>2, <3>3, <3>4 DEF Fifo!Begin
    <3> QED
      BY <3>5 DEF Fifo!BNext
  <2>3. CASE Consume(t)
    <3>1. Queue' = Queue
      BY <2>3, QueueStays
    <3>2. Go(t, "out", "wait_used") /\ val' = val
      BY <2>3 DEF Consume
    <3>3. ops[t] = "none" /\ ops' = [ops EXCEPT ![t] = "take"]
      BY <3>2, OpMoves, OpOf
    <3>4. Fifo!Begin(t)
      BY <3>1, <3>2, <3>3 DEF Fifo!Begin
    <3> QED
      BY <3>4 DEF Fifo!BNext
  <2>4. CASE CopyIn(t)
    <3>1. Queue' = Append(Queue, val[t]) /\ Len(Queue) < Size
      BY <2>4, CopyInAppends
    <3>2. Go(t, "copy_in", "post_used") /\ val' = val
      BY <2>4 DEF CopyIn
    <3>3. ops[t] = "put" /\ ops' = [ops EXCEPT ![t] = "done"]
      BY <3>2, OpMoves, OpOf
    <3>4. Fifo!Put(t)
      BY <3>1, <3>2, <3>3 DEF Fifo!Put
    <3> QED
      BY <3>4 DEF Fifo!BNext
  <2>5. CASE CopyOut(t)
    <3>1. Queue # <<>> /\ Queue' = Tail(Queue) /\ Head(Queue) = storage_[consume_at_]
      BY <2>5, CopyOutTakes
    <3>2. Go(t, "copy_out", "post_empty") /\ val' = [val EXCEPT ![t] = storage_[consume_at_]]
      BY <2>5 DEF CopyOut
    <3>3. ops[t] = "take" /\ ops' = [ops EXCEPT ![t] = "done"]
      BY <3>2, OpMoves, OpOf
    <3>4. Fifo!Take(t)
      BY <3>1, <3>2, <3>3 DEF Fifo!Take
    <3> QED
      BY <3>4 DEF Fifo!BNext
  <2>6. CASE PostUsed(t) \/ PostEmpty(t)
    <3>1. Queue' = Queue
      BY <2>6, QueueStays
    <3>2. (Go(t, "post_used", "out") \/ Go(t, "post_empty", "out")) /\ val' = val
      BY <2>6 DEF PostUsed, PostEmpty
    <3>3. ops[t] = "done" /\ ops' = [ops EXCEPT ![t] = "none"]
      BY <3>2, OpMoves, OpOf
    <3>4. Fifo!End(t)
      BY <3>1, <3>2, <3>3 DEF Fifo!End
    <3> QED
      BY <3>4 DEF Fifo!BNext
  <2>7. CASE ThrowIn(t) \/ ThrowOut(t)
    <3>1. Queue' = Queue
      BY <2>7, QueueStays
    <3>2. /\ Go(t, "copy_in", "out") \/ Go(t, "copy_out", "out")
          /\ val' = val /\ t \in Throwing
      BY <2>7 DEF ThrowIn, ThrowOut, ring
    <3>3. ops[t] \in {"put", "take"} /\ ops' = [ops EXCEPT ![t] = "none"]
      BY <3>2, OpMoves, OpOf
    <3>4. Fifo!End(t)
      BY <3>1, <3>2, <3>3 DEF Fifo!End
    <3> QED
      BY <3>4 DEF Fifo!BNext
  <2>8. CASE WaitEmpty(t) \/ WaitUsed(t) \/ LockProduce(t) \/ LockConsume(t)
    <3>1. Queue' = Queue
      BY <2>8, QueueStays
    <3>2. val' = val
      BY <2>8 DEF WaitEmpty, WaitUsed, LockProduce, LockConsume
    <3>3. \E from, to : Go(t, from, to) /\ OpAt(from) = OpAt(to)
      <4>1. CASE WaitEmpty(t)
        BY <4>1, OpOf DEF WaitEmpty
      <4>2. CASE WaitUsed(t)
        BY <4>2, OpOf DEF WaitUsed
      <4>3. CASE LockProduce(t)
        BY <4>3, OpOf DEF LockProduce
      <4>4. CASE LockConsume(t)
        BY <4>4, OpOf DEF LockConsume
      <4> QED
        BY <2>8, <4>1, <4>2, <4>3, <4>4
    <3>4. ops' = ops
      <4>1. PICK from, to : Go(t, from, to) /\ OpAt(from) = OpAt(to)
        BY <3>3
      <4>2. ops[t] = OpAt(to) /\ ops' = [ops EXCEPT ![t] = OpAt(to)]
        BY <4>1, OpMoves
      <4> QED
        BY <4>2
    <3> QED
      BY <3>1, <3>2, <3>4 DEF Fifo!bvars
  <2> QED
    BY <2>1, <2>2, <2>3, <2>4, <2>5, <2>6, <2>7, <2>8 DEF GoOn, Throw
<1> QED
  BY <1>1, <1>2

\* At first the queue is empty and nobody calls.
LEMMA QueueStart == QInit => Fifo!BInit
<1> SUFFICES ASSUME QInit PROVE Fifo!BInit
  OBVIOUS
<1>1. At({"post_used", "lock_consume", "copy_out"}) = {}
  BY DEF QInit, At
<1>2. Held = 0
  BY <1>1, FS_EmptySet DEF QInit, Held
<1>3. Queue = <<>>
  BY <1>2 DEF Queue
<1>4. [t \in Threads |-> OpAt(at[t])] = [t \in Threads |-> "none"]
  BY OpOf DEF QInit
<1>5. val \in [Threads -> Values]
  BY QueueAssumption DEF QInit
<1> QED
  BY <1>3, <1>4, <1>5 DEF Fifo!BInit

\* "Producer consumer queue safe for multiple producers and multiple consumers"
\* with its "strong exception guarantee" (pcqueue.hh:25-30): for any number of
\* threads and any size the ring is a bounded first-in first-out queue, on which
\* each call takes effect with its copy or not at all.
THEOREM QueueIsFifo == QSpec => ImplementsFifo
<1>1. QInit => Fifo!BInit
  BY QueueStart
<1>2. QInv /\ [QNext]_qvars => [Fifo!BNext]_(Fifo!bvars)
  BY QueueStep
<1> QED
  BY <1>1, <1>2, QInvariant, PTL DEF QSpec, ImplementsFifo, Fifo!BSpec

-----------------------------------------------------------------------------
(* The pool.                                                                 *)

\* A step of the pool is one of the queue, or leaves it alone.
LEMMA PoolStep == [PNext]_pvars => [QNext]_qvars
<1> SUFFICES ASSUME [PNext]_pvars PROVE [QNext]_qvars
  OBVIOUS
<1>1. CASE UNCHANGED pvars
  BY <1>1 DEF pvars, qvars, ring
<1>2. ASSUME NEW t \in Threads, InQueue(t) PROVE QNext
  BY <1>2 DEF InQueue, QNext
<1>3. CASE MainStep
  <2>1. CASE InQueue(Main)
    BY <1>2, <2>1, PoolAssumption
  <2>2. CASE ProducePoison
    <3>1. Produce(Main, Poison) /\ Main \in Threads /\ Poison \in Values
      BY <2>2, PoolAssumption DEF ProducePoison
    <3> QED
      BY <3>1 DEF QNext
  <2>3. CASE Constructed \/ Destroy \/ Join \/ \E w \in Workers : StartThread(w) \/ CopyPoison(w)
    BY <2>3 DEF Constructed, Destroy, Join, StartThread, CopyPoison
  <2> QED
    BY <1>3, <2>1, <2>2, <2>3 DEF MainStep
<1>4. ASSUME NEW c \in Clients, ClientStep(c) PROVE QNext
  <2>1. c \in Threads
    BY PoolAssumption
  <2>2. CASE \E r \in Requests : Submit(c, r)
    <3>1. PICK r \in Requests : Produce(c, r)
      BY <2>2 DEF Submit
    <3>2. r \in Values
      BY PoolAssumption
    <3> QED
      BY <2>1, <3>1, <3>2 DEF QNext
  <2> QED
    BY <1>2, <1>4, <2>1, <2>2 DEF ClientStep
<1>5. ASSUME NEW w \in Workers, WorkerStep(w) PROVE QNext \/ UNCHANGED qvars
  <2>1. w \in Threads
    BY PoolAssumption
  <2>2. CASE WorkerConsume(w)
    BY <2>1, <2>2 DEF WorkerConsume, QNext
  <2>3. CASE WorkerCompare(w) \/ WorkerHandle(w)
    BY <2>3 DEF WorkerCompare, WorkerHandle
  <2> QED
    BY <1>2, <1>5, <2>1, <2>2, <2>3 DEF WorkerStep
<1>6. ASSUME NEW t \in Threads, ThrowInQueue(t) PROVE QNext
  BY <1>6 DEF ThrowInQueue, QNext
<1> QED
  BY <1>1, <1>3, <1>4, <1>5, <1>6 DEF PNext

\* Whatever clients, workers and the destructor do, no two copies meet at a slot
\* of the queue (thread_pool.hh:16-91 over pcqueue.hh:46, :63).
THEOREM PoolIsSafe == PSpec => []NoRace
<1>1. PSpec => QSpec
  BY PoolStep, PTL DEF PSpec, QSpec, PInit
<1> QED
  BY <1>1, QueueIsSafe

\* Requests and poisons go through the pool's queue as through a bounded FIFO,
\* which is what the poisons at its end rely on (thread_pool.hh:69-76).
THEOREM PoolIsFifo == PSpec => ImplementsFifo
<1>1. PSpec => QSpec
  BY PoolStep, PTL DEF PSpec, QSpec, PInit
<1> QED
  BY <1>1, QueueIsFifo

-----------------------------------------------------------------------------
(* Where a request can be.                                                   *)

InSeq(q) == {q[k] : k \in 1 .. Len(q)}

\* What a worker has taken out of the queue and not yet dealt with.
Taken(w) == at[w] = "post_empty" \/ (at[w] = "out" /\ doing[w] \in {"compare", "handle"})

\* The requests a thread carries to the queue or from it.
Carried(t) ==
  IF \/ t \in Clients /\ at[t] \in {"wait_empty", "lock_produce", "copy_in"}
     \/ t \in Workers /\ Taken(t)
  THEN {val[t]} \cap Requests ELSE {}

\* A request that was put into the queue is there, with a worker, or handled.
Kept(r) ==
  \/ r \in InSeq(Queue)
  \/ \E w \in Workers : r \in Carried(w)
  \/ handled[r] = 1

\* A worker that has met a poison.
Poisoned(w) == doing[w] = "returned" \/ (Taken(w) /\ val[w] = Poison)

(* The inductive invariant, in parts.                                        *)

PoolTypes ==
  /\ pool \in {"constructing", "open", "poisoning", "gone", "aborted"}
  /\ doing \in [Workers -> {"unborn", "consume", "compare", "handle", "returned"}]
  /\ poison_ \in [Workers -> {Default, Poison}]
  /\ todo \in [Clients -> SUBSET Requests]
  /\ accepted \subseteq Requests
  /\ handled \in [Requests -> Nat]

\* Who may be where, and with what.
PoolPlaces ==
  /\ \A w \in Workers :
       /\ at[w] \in {"out", "wait_used", "lock_consume", "copy_out", "post_empty"}
       /\ doing[w] # "compare" => at[w] = "out"
       /\ pool # "aborted" /\ Taken(w) => val[w] \in Requests \cup {Poison}
       /\ doing[w] = "handle" => val[w] \in Requests
  /\ \A t \in Threads \ Workers :
       /\ at[t] \in {"out", "wait_empty", "lock_produce", "copy_in", "post_used"}
       /\ at[t] # "out" => val[t] \in IF t = Main THEN {Poison} ELSE Requests

\* What is over or not yet begun at each state of the pool.
PoolPhases ==
  /\ pool = "constructing" =>
       /\ used_ = 0 /\ \A t \in Threads : at[t] \in {"out", "wait_used"}
       /\ \A w \in Workers :
            /\ doing[w] \in {"unborn", "consume", "compare"}
            /\ doing[w] = "compare" => at[w] = "wait_used"
  /\ pool # "constructing" => \A w \in Workers : poison_[w] = Poison
  /\ pool \in {"constructing", "open", "gone"} => at[Main] = "out"
  /\ pool \in {"poisoning", "gone"} =>
       \A c \in Clients : todo[c] = {} /\ at[c] = "out"
  /\ pool = "gone" => \A w \in Workers : doing[w] = "returned"

\* The queue holds requests, each once, and then poisons.
GoodQueue(q) ==
  /\ InSeq(q) \subseteq Requests \cup {Poison}
  /\ \A j, k \in 1 .. Len(q) : j < k /\ q[j] = Poison => q[k] = Poison
  /\ \A j, k \in 1 .. Len(q) : q[j] = q[k] /\ q[j] \in Requests => j = k

PoolOrder ==
  /\ GoodQueue(Queue)
  /\ pool \in {"constructing", "open"} =>
       Poison \notin InSeq(Queue) /\ \A w \in Workers : ~Poisoned(w)
  /\ pool # "aborted" =>
       \A w \in Workers : Poisoned(w) => InSeq(Queue) \subseteq {Poison}

\* A request is in one place only.
PoolOnce ==
  /\ \A r \in Requests : handled[r] <= 1
  /\ pool # "aborted" =>
       /\ \A c, d \in Clients : c = d \/ todo[c] \cap todo[d] = {}
       /\ \A t, u \in Threads : t = u \/ Carried(t) \cap Carried(u) = {}
       /\ \A c \in Clients, t \in Threads : todo[c] \cap Carried(t) = {}
       /\ \A c \in Clients : todo[c] \cap InSeq(Queue) = {}
       /\ \A t \in Threads : Carried(t) \cap InSeq(Queue) = {}
       /\ \A r \in Requests : handled[r] = 1 =>
            /\ r \notin InSeq(Queue)
            /\ \A c \in Clients : r \notin todo[c]
            /\ \A t \in Threads : r \notin Carried(t)

\* No request is lost.
PoolKeeps ==
  pool # "aborted" =>
    /\ \A r \in accepted : Kept(r)
    /\ \A c \in Clients : at[c] = "post_used" => Kept(val[c])

PoolInv == PoolTypes /\ PoolPlaces /\ PoolPhases /\ PoolOrder /\ PoolOnce /\ PoolKeeps

-----------------------------------------------------------------------------
(* Sequences of requests and poisons.                                        *)

\* What is appended is in the sequence, with what was there.
LEMMA InAppended ==
  ASSUME NEW S, NEW q \in Seq(S), NEW x \in S
  PROVE  InSeq(Append(q, x)) = InSeq(q) \cup {x}
<1>1. /\ Len(Append(q, x)) = Len(q) + 1 /\ Len(q) \in Nat
      /\ \A k \in 1 .. Len(q) : Append(q, x)[k] = q[k]
      /\ Append(q, x)[Len(q) + 1] = x
  OBVIOUS
<1> QED
  BY <1>1 DEF InSeq

\* What is taken off the sequence is all that may be missing.
LEMMA InTail ==
  ASSUME NEW S, NEW q \in Seq(S), q # <<>>
  PROVE  /\ InSeq(q) = InSeq(Tail(q)) \cup {Head(q)}
         /\ Head(q) \in InSeq(q)
<1>1. /\ Len(Tail(q)) = Len(q) - 1 /\ Len(q) \in Nat \ {0}
      /\ \A k \in 1 .. Len(q) - 1 : Tail(q)[k] = q[k + 1]
      /\ Head(q) = q[1]
  OBVIOUS
<1>2. \A k \in 1 .. Len(q) : k = 1 \/ (k - 1 \in 1 .. Len(q) - 1 /\ (k - 1) + 1 = k)
  BY <1>1
<1>3. InSeq(q) \subseteq InSeq(Tail(q)) \cup {Head(q)}
  BY <1>1, <1>2 DEF InSeq
<1>4. InSeq(Tail(q)) \subseteq InSeq(q)
  BY <1>1 DEF InSeq
<1>5. Head(q) \in InSeq(q)
  BY <1>1 DEF InSeq
<1> QED
  BY <1>3, <1>4, <1>5

\* A poison may always follow, a request only if no poison is there, nor itself.
LEMMA GoodAppend ==
  ASSUME NEW S, NEW q \in Seq(S), NEW x \in S, GoodQueue(q),
         x \in Requests \cup {Poison},
         x \in Requests => Poison \notin InSeq(q) /\ x \notin InSeq(q)
  PROVE  GoodQueue(Append(q, x))
<1> DEFINE r == Append(q, x)
<1>1. /\ Len(r) = Len(q) + 1 /\ Len(q) \in Nat
      /\ \A k \in 1 .. Len(q) : r[k] = q[k]
      /\ r[Len(q) + 1] = x
  OBVIOUS
<1>2. InSeq(r) = InSeq(q) \cup {x}
  BY InAppended
<1>3. \A k \in 1 .. Len(q) : q[k] \in InSeq(q)
  BY DEF InSeq
<1>4. \A k \in 1 .. Len(r) : k \in 1 .. Len(q) \/ k = Len(q) + 1
  BY <1>1
<1> HIDE DEF r
<1>5. InSeq(r) \subseteq Requests \cup {Poison}
  BY <1>2 DEF GoodQueue
<1>6. ASSUME NEW j \in 1 .. Len(r), NEW k \in 1 .. Len(r), j < k, r[j] = Poison
      PROVE  r[k] = Poison
  <2>1. j \in 1 .. Len(q)
    BY <1>1, <1>6
  <2>2. CASE k \in 1 .. Len(q)
    BY <1>1, <1>6, <2>1, <2>2 DEF GoodQueue
  <2>3. CASE k = Len(q) + 1
    BY <1>1, <1>3, <1>6, <2>1, <2>3
  <2> QED
    BY <1>4, <2>2, <2>3
<1>7. ASSUME NEW j \in 1 .. Len(r), NEW k \in 1 .. Len(r), r[j] = r[k], r[j] \in Requests
      PROVE  j = k
  BY <1>1, <1>3, <1>4, <1>7 DEF GoodQueue
<1> QED
  BY <1>5, <1>6, <1>7 DEF GoodQueue, r

\* What follows a poison is poison, and what follows a request is not itself.
LEMMA GoodTail ==
  ASSUME NEW S, NEW q \in Seq(S), q # <<>>, GoodQueue(q)
  PROVE  /\ GoodQueue(Tail(q))
         /\ Head(q) \in Requests \cup {Poison}
         /\ Head(q) = Poison => InSeq(Tail(q)) \subseteq {Poison}
         /\ Head(q) \in Requests => Head(q) \notin InSeq(Tail(q))
<1> DEFINE r == Tail(q)
<1>1. /\ Len(r) = Len(q) - 1 /\ Len(q) \in Nat \ {0}
      /\ \A k \in 1 .. Len(r) : k + 1 \in 1 .. Len(q) /\ k + 1 > 1 /\ r[k] = q[k + 1]
      /\ Head(q) = q[1] /\ 1 \in 1 .. Len(q)
  OBVIOUS
<1>2. InSeq(q) = InSeq(r) \cup {Head(q)}
  BY InTail
<1> HIDE DEF r
<1>3. Head(q) = Poison => InSeq(r) \subseteq {Poison}
  BY <1>1 DEF GoodQueue, InSeq
<1>4. Head(q) \in Requests => Head(q) \notin InSeq(r)
  BY <1>1 DEF GoodQueue, InSeq
<1>5. \A j, k \in 1 .. Len(r) : j < k /\ r[j] = Poison => r[k] = Poison
  BY <1>1 DEF GoodQueue
<1>6. \A j, k \in 1 .. Len(r) : r[j] = r[k] /\ r[j] \in Requests => j = k
  BY <1>1 DEF GoodQueue
<1>7. GoodQueue(r) /\ Head(q) \in Requests \cup {Poison}
  BY <1>2, <1>5, <1>6 DEF GoodQueue
<1> QED
  BY <1>3, <1>4, <1>7 DEF r

-----------------------------------------------------------------------------
(* What a step does, for the parts of the invariant.                         *)

\* The queue is a sequence of values.
LEMMA QueueSeq == QInv => Queue \in Seq(Values)
<1> QED
  BY QueueIs DEF QueueIsHeld

\* A step that does not touch the queue leaves its sequence.
LEMMA QueueSame == UNCHANGED qvars => Queue' = Queue /\ at' = at /\ val' = val /\ used_' = used_
<1> QED
  BY DEF qvars, ring, Queue, Held, At, Wrapped

\* The sequence of a step inside a call that copies nothing.
LEMMA QuietSteps ==
  ASSUME QInv, NEW t \in Threads,
         \/ WaitEmpty(t) \/ LockProduce(t) \/ PostUsed(t)
         \/ WaitUsed(t) \/ LockConsume(t) \/ PostEmpty(t)
  PROVE  /\ Queue' = Queue /\ val' = val
         /\ \/ Go(t, "wait_empty", "lock_produce")
            \/ Go(t, "lock_produce", "copy_in")
            \/ Go(t, "post_used", "out")
            \/ Go(t, "wait_used", "lock_consume") /\ used_ > 0
            \/ Go(t, "lock_consume", "copy_out")
            \/ Go(t, "post_empty", "out")
<1>1. Queue' = Queue
  BY QueueStays
<1> QED
  BY <1>1 DEF WaitEmpty, LockProduce, PostUsed, WaitUsed, LockConsume, PostEmpty

\* Threads have one part in the pool.
LEMMA Parts ==
  /\ Main \in Threads \ Workers /\ Main \notin Clients
  /\ \A c \in Clients : c \in Threads \ Workers
  /\ \A w \in Workers : w \in Threads /\ w \notin Clients /\ w # Main
  /\ \A t \in Threads : t = Main \/ t \in Clients \/ t \in Workers
<1> QED
  BY PoolAssumption

-----------------------------------------------------------------------------
(* The steps keep the invariant, one lemma for each.                         *)

\* Nothing has happened before the pool.
LEMMA PInitInv == PInit => PoolInv
<1> SUFFICES ASSUME PInit PROVE PoolInv
  OBVIOUS
<1> USE Parts DEF PInit
<1>1. QInv
  BY QInitInv
<1>2. at = [t \in Threads |-> "out"] /\ used_ = 0
  BY DEF QInit
<1>3. InSeq(Queue) = {} /\ GoodQueue(Queue)
  <2>1. Queue = <<>>
    <3>1. At({"post_used", "lock_consume", "copy_out"}) = {}
      BY <1>2 DEF At
    <3>2. Cardinality(At({"post_used", "lock_consume", "copy_out"})) = 0
      BY <3>1, FS_EmptySet
    <3>3. Held = 0
      BY <1>2, <3>2 DEF Held
    <3> QED
      BY <3>3 DEF Queue
  <2> QED
    BY <2>1 DEF InSeq, GoodQueue
<1>4. \A t \in Threads : Carried(t) = {}
  BY <1>2 DEF Carried, Taken
<1>5. PoolTypes
  BY DEF PoolTypes
<1>6. PoolPlaces
  BY <1>2 DEF PoolPlaces, Taken
<1>7. PoolPhases
  BY <1>2 DEF PoolPhases
<1>8. PoolOrder
  BY <1>2, <1>3 DEF PoolOrder, Poisoned, Taken
<1>9. PoolOnce
  BY <1>3, <1>4 DEF PoolOnce
<1>10. PoolKeeps
  BY <1>2 DEF PoolKeeps
<1> QED
  BY <1>5, <1>6, <1>7, <1>8, <1>9, <1>10 DEF PoolInv

\* The steps of Main between the calls move no request.
LEMMA MainInv ==
  ASSUME PoolInv, QInv,
         \/ \E w \in Workers : StartThread(w) \/ CopyPoison(w)
         \/ Constructed \/ Destroy \/ Join
  PROVE  PoolInv'
<1> USE Parts
<1>1. /\ Queue' = Queue /\ at' = at /\ val' = val /\ used_' = used_
      /\ UNCHANGED <<todo, accepted, handled>>
      /\ pool # "aborted"
  BY QueueSame DEF StartThread, CopyPoison, Constructed, Destroy, Join
<1>2. \A w \in Workers : (doing'[w] = doing[w] \/ (doing[w] = "unborn" /\ doing'[w] = "consume"))
  BY DEF StartThread, CopyPoison, Constructed, Destroy, Join, PoolInv, PoolTypes
<1>3. \A t \in Threads : Carried(t)' = Carried(t)
  BY <1>1, <1>2 DEF Carried, Taken
<1>4. \A w \in Workers : Poisoned(w)' = Poisoned(w) /\ Taken(w)' = Taken(w)
  BY <1>1, <1>2 DEF Poisoned, Taken
<1>5. PoolTypes'
  BY <1>1 DEF StartThread, CopyPoison, Constructed, Destroy, Join, PoolInv, PoolTypes
<1>6. PoolPlaces'
  BY <1>1, <1>2, <1>4 DEF PoolInv, PoolPlaces
<1>7. PoolPhases'
  BY <1>1, <1>2 DEF StartThread, CopyPoison, Constructed, Destroy, Join, PoolInv, PoolTypes, PoolPhases
<1>8. PoolOrder'
  BY <1>1, <1>4 DEF StartThread, CopyPoison, Constructed, Destroy, Join, PoolInv, PoolOrder
<1>9. PoolOnce'
  BY <1>1, <1>3 DEF PoolInv, PoolOnce
<1>10. PoolKeeps'
  BY <1>1, <1>3 DEF PoolInv, PoolKeeps, Kept
<1> QED
  BY <1>5, <1>6, <1>7, <1>8, <1>9, <1>10 DEF PoolInv

\* A client begins to carry a request it had left.
LEMMA SubmitInv ==
  ASSUME PoolInv, QInv, NEW c \in Clients, NEW r \in Requests, Submit(c, r)
  PROVE  PoolInv'
<1> USE Parts
<1>1. r \in Values /\ Produce(c, r)
  BY PoolAssumption DEF Submit
<1>2. Queue' = Queue
  BY <1>1, QueueStays
<1>3. /\ pool = "open" /\ at[c] = "out" /\ at' = [at EXCEPT ![c] = "wait_empty"]
      /\ val' = [val EXCEPT ![c] = r] /\ used_' = used_
      /\ r \in todo[c] /\ todo' = [todo EXCEPT ![c] = @ \ {r}]
      /\ UNCHANGED <<pool, doing, poison_, accepted, handled>>
      /\ at \in [Threads -> Places] /\ val \in [Threads -> Values]
      /\ todo \in [Clients -> SUBSET Requests]
  BY <1>1 DEF Submit, Produce, Go, QInv, PoolInv, PoolTypes
<1>4. /\ Carried(c)' = {r} /\ Carried(c) = {}
      /\ \A t \in Threads \ {c} : Carried(t)' = Carried(t)
  BY <1>3 DEF Carried, Taken
<1>5. \A w \in Workers : Poisoned(w)' = Poisoned(w) /\ Taken(w)' = Taken(w)
  BY <1>3 DEF Poisoned, Taken
<1>6. PoolTypes'
  BY <1>3 DEF PoolInv, PoolTypes
<1>7. PoolPlaces'
  BY <1>3, <1>5 DEF PoolInv, PoolPlaces
<1>8. PoolPhases'
  BY <1>3 DEF PoolInv, PoolPhases
<1>9. PoolOrder'
  BY <1>2, <1>3, <1>5 DEF PoolInv, PoolOrder
<1>10. PoolOnce'
  BY <1>2, <1>3, <1>4 DEF PoolInv, PoolOnce
<1>11. PoolKeeps'
  BY <1>2, <1>3, <1>4 DEF PoolInv, PoolKeeps, Kept
<1> QED
  BY <1>6, <1>7, <1>8, <1>9, <1>10, <1>11 DEF PoolInv

\* The destructor begins to produce a poison.
LEMMA ProducePoisonInv ==
  ASSUME PoolInv, QInv, ProducePoison
  PROVE  PoolInv'
<1> USE Parts
<1>1. Poison \in Values /\ Produce(Main, Poison)
  BY PoolAssumption DEF ProducePoison
<1>2. Queue' = Queue
  BY <1>1, QueueStays
<1>3. /\ pool = "poisoning" /\ at[Main] = "out" /\ at' = [at EXCEPT ![Main] = "wait_empty"]
      /\ val' = [val EXCEPT ![Main] = Poison]
      /\ UNCHANGED <<pool, doing, poison_, todo, accepted, handled>>
      /\ at \in [Threads -> Places] /\ val \in [Threads -> Values]
  BY <1>1 DEF ProducePoison, Produce, Go, QInv
<1>4. \A t \in Threads : Carried(t)' = Carried(t)
  BY <1>3 DEF Carried, Taken
<1>5. \A w \in Workers : Poisoned(w)' = Poisoned(w) /\ Taken(w)' = Taken(w)
  BY <1>3 DEF Poisoned, Taken
<1>6. PoolTypes'
  BY <1>3 DEF PoolInv, PoolTypes
<1>7. PoolPlaces'
  BY <1>3, <1>5 DEF PoolInv, PoolPlaces
<1>8. PoolPhases'
  BY <1>3 DEF PoolInv, PoolPhases
<1>9. PoolOrder'
  BY <1>2, <1>3, <1>5 DEF PoolInv, PoolOrder
<1>10. PoolOnce'
  BY <1>2, <1>3, <1>4 DEF PoolInv, PoolOnce
<1>11. PoolKeeps'
  BY <1>2, <1>3, <1>4 DEF PoolInv, PoolKeeps, Kept
<1> QED
  BY <1>6, <1>7, <1>8, <1>9, <1>10, <1>11 DEF PoolInv

\* A worker begins to consume; it has nothing in hand.
LEMMA WorkerConsumeInv ==
  ASSUME PoolInv, QInv, NEW w \in Workers, WorkerConsume(w)
  PROVE  PoolInv'
<1> USE Parts
<1>1. Consume(w)
  BY DEF WorkerConsume
<1>2. Queue' = Queue
  BY <1>1, QueueStays
<1>3. /\ pool # "aborted" /\ doing[w] = "consume" /\ doing' = [doing EXCEPT ![w] = "compare"]
      /\ at[w] = "out" /\ at' = [at EXCEPT ![w] = "wait_used"]
      /\ val' = val /\ used_' = used_
      /\ UNCHANGED <<pool, poison_, todo, accepted, handled>>
      /\ at \in [Threads -> Places]
      /\ doing \in [Workers -> {"unborn", "consume", "compare", "handle", "returned"}]
  BY <1>1 DEF WorkerConsume, Consume, Go, QInv, PoolInv, PoolTypes
<1>4. \A t \in Threads : Carried(t)' = Carried(t)
  BY <1>3 DEF Carried, Taken
<1>5. /\ ~Taken(w)' /\ ~Poisoned(w)'
      /\ \A v \in Workers \ {w} : Poisoned(v)' = Poisoned(v) /\ Taken(v)' = Taken(v)
  BY <1>3 DEF Poisoned, Taken
<1>6. PoolTypes'
  BY <1>3 DEF PoolInv, PoolTypes
<1>7. PoolPlaces'
  BY <1>3, <1>5 DEF PoolInv, PoolPlaces
<1>8. PoolPhases'
  BY <1>3 DEF PoolInv, PoolPhases
<1>9. PoolOrder'
  BY <1>2, <1>3, <1>5 DEF PoolInv, PoolOrder
<1>10. PoolOnce'
  BY <1>2, <1>3, <1>4 DEF PoolInv, PoolOnce
<1>11. PoolKeeps'
  BY <1>2, <1>3, <1>4 DEF PoolInv, PoolKeeps, Kept
<1> QED
  BY <1>6, <1>7, <1>8, <1>9, <1>10, <1>11 DEF PoolInv

\* A worker looks at what it has taken.
LEMMA WorkerCompareInv ==
  ASSUME PoolInv, QInv, NEW w \in Workers, WorkerCompare(w)
  PROVE  PoolInv'
<1> USE Parts
<1>1. Queue' = Queue /\ at' = at /\ val' = val /\ used_' = used_
  BY QueueSame DEF WorkerCompare
<1>2. /\ pool # "aborted" /\ doing[w] = "compare" /\ at[w] = "out"
      /\ UNCHANGED <<pool, poison_, todo, accepted, handled>>
      /\ doing' = [doing EXCEPT ![w] = IF val[w] = poison_[w] THEN "returned" ELSE "handle"]
      /\ doing \in [Workers -> {"unborn", "consume", "compare", "handle", "returned"}]
  BY DEF WorkerCompare, PoolInv, PoolTypes
<1>3. pool # "constructing" /\ poison_[w] = Poison
  BY <1>2 DEF PoolInv, PoolPhases
<1>4. Taken(w) /\ val[w] \in Requests \cup {Poison}
  BY <1>2 DEF PoolInv, PoolPlaces, Taken
<1>5. /\ val[w] = Poison => doing'[w] = "returned"
      /\ val[w] # Poison => doing'[w] = "handle"
  BY <1>2, <1>3
<1>6. Carried(w)' = Carried(w)
  BY <1>1, <1>2, <1>4, <1>5, PoolAssumption DEF Carried, Taken
<1>7. \A t \in Threads \ {w} : Carried(t)' = Carried(t)
  BY <1>1, <1>2 DEF Carried, Taken
<1>8. \A v \in Workers : Poisoned(v)' = Poisoned(v)
  BY <1>1, <1>2, <1>4, <1>5 DEF Poisoned, Taken
<1>9. \A v \in Workers \ {w} : Taken(v)' = Taken(v) /\ doing'[v] = doing[v]
  BY <1>1, <1>2 DEF Taken
<1>10. PoolTypes'
  BY <1>2 DEF PoolInv, PoolTypes
<1>11. PoolPlaces'
  BY <1>1, <1>2, <1>4, <1>5, <1>9 DEF PoolInv, PoolPlaces
<1>12. PoolPhases'
  BY <1>1, <1>2, <1>3 DEF PoolInv, PoolPhases
<1>13. PoolOrder'
  BY <1>1, <1>2, <1>8 DEF PoolInv, PoolOrder
<1>14. PoolOnce'
  BY <1>1, <1>2, <1>6, <1>7 DEF PoolInv, PoolOnce
<1>15. PoolKeeps'
  BY <1>1, <1>2, <1>6, <1>7 DEF PoolInv, PoolKeeps, Kept
<1> QED
  BY <1>10, <1>11, <1>12, <1>13, <1>14, <1>15 DEF PoolInv

\* A worker handles what it carries, or the process ends.
LEMMA WorkerHandleInv ==
  ASSUME PoolInv, QInv, NEW w \in Workers, WorkerHandle(w)
  PROVE  PoolInv'
<1> USE Parts
<1>1. Queue' = Queue /\ at' = at /\ val' = val /\ used_' = used_
  BY QueueSame DEF WorkerHandle
<1>2. /\ pool # "aborted" /\ doing[w] = "handle" /\ at[w] = "out" /\ val[w] \in Requests
      /\ UNCHANGED <<poison_, todo, accepted>>
      /\ pool # "constructing"
  BY DEF WorkerHandle, PoolInv, PoolPlaces, PoolPhases
<1>3. CASE pool' = "aborted" /\ UNCHANGED <<doing, handled>>
  <2>1. PoolTypes'
    BY <1>2, <1>3 DEF PoolInv, PoolTypes
  <2>2. PoolPlaces'
    BY <1>1, <1>2, <1>3 DEF PoolInv, PoolPlaces
  <2>3. PoolPhases'
    BY <1>1, <1>2, <1>3 DEF PoolInv, PoolPhases
  <2>4. PoolOrder' /\ PoolOnce' /\ PoolKeeps'
    BY <1>1, <1>3 DEF PoolInv, PoolOrder, PoolOnce, PoolKeeps
  <2> QED
    BY <2>1, <2>2, <2>3, <2>4 DEF PoolInv
<1>4. CASE /\ pool' = pool
           /\ handled' = [handled EXCEPT ![val[w]] = @ + 1]
           /\ doing' = [doing EXCEPT ![w] = "consume"]
  <2>1. /\ handled \in [Requests -> Nat]
        /\ doing \in [Workers -> {"unborn", "consume", "compare", "handle", "returned"}]
    BY DEF PoolInv, PoolTypes
  <2>2. Carried(w) = {val[w]} /\ Carried(w)' = {}
    BY <1>1, <1>2, <1>4, <2>1 DEF Carried, Taken
  <2>3. \A t \in Threads \ {w} : Carried(t)' = Carried(t)
    BY <1>1, <1>4, <2>1 DEF Carried, Taken
  <2>4. /\ ~Taken(w)' /\ ~Poisoned(w)'
        /\ \A v \in Workers \ {w} : Poisoned(v)' = Poisoned(v) /\ Taken(v)' = Taken(v)
    BY <1>1, <1>2, <1>4, <2>1 DEF Poisoned, Taken
  <2>5. handled[val[w]] = 0
    BY <1>2, <2>1, <2>2 DEF PoolInv, PoolOnce
  <2>6. handled'[val[w]] = 1 /\ \A r \in Requests \ {val[w]} : handled'[r] = handled[r]
    BY <1>2, <1>4, <2>1, <2>5
  <2>7. PoolTypes'
    BY <1>2, <1>4, <2>1 DEF PoolInv, PoolTypes
  <2>8. PoolPlaces'
    BY <1>1, <1>2, <1>4, <2>1, <2>4 DEF PoolInv, PoolPlaces
  <2>9. PoolPhases'
    BY <1>1, <1>2, <1>4, <2>1 DEF PoolInv, PoolPhases
  <2>10. PoolOrder'
    BY <1>1, <1>2, <1>4, <2>4 DEF PoolInv, PoolOrder
  <2>11. PoolOnce'
    <3>1. \A r \in Requests : handled'[r] <= 1
      BY <2>6 DEF PoolInv, PoolOnce
    <3> QED
      BY <1>1, <1>2, <1>4, <2>2, <2>3, <2>6, <3>1 DEF PoolInv, PoolOnce
  <2>12. \A r \in Requests : Kept(r) => Kept(r)'
    BY <1>1, <2>2, <2>3, <2>6 DEF Kept
  <2>13. PoolKeeps'
    <3>1. \A c \in Clients : at[c] = "post_used" => val[c] \in Requests
      BY DEF PoolInv, PoolPlaces
    <3> QED
      BY <1>1, <1>2, <1>4, <2>12, <3>1 DEF PoolInv, PoolTypes, PoolKeeps
  <2> QED
    BY <2>7, <2>8, <2>9, <2>10, <2>11, <2>13 DEF PoolInv
<1> QED
  BY <1>3, <1>4 DEF WorkerHandle

\* A thread goes on in its call and copies nothing; a client that returns has
\* its request accepted.
LEMMA QuietInv ==
  ASSUME PoolInv, QInv, NEW t \in Threads, InQueue(t),
         \/ WaitEmpty(t) \/ LockProduce(t) \/ PostUsed(t)
         \/ WaitUsed(t) \/ LockConsume(t) \/ PostEmpty(t)
  PROVE  PoolInv'
<1> USE Parts
<1>1. PICK from \in Places, to \in Places :
        /\ Go(t, from, to)
        /\ \/ from = "wait_empty" /\ to = "lock_produce"
           \/ from = "lock_produce" /\ to = "copy_in"
           \/ from = "post_used" /\ to = "out"
           \/ from = "wait_used" /\ to = "lock_consume" /\ used_ > 0
           \/ from = "lock_consume" /\ to = "copy_out"
           \/ from = "post_empty" /\ to = "out"
  BY QuietSteps DEF Places
<1>2. /\ Queue' = Queue /\ val' = val
      /\ pool # "aborted" /\ UNCHANGED <<pool, doing, poison_, todo, handled>>
      /\ at[t] = from /\ at' = [at EXCEPT ![t] = to]
      /\ at \in [Threads -> Places]
      /\ accepted' = IF at[t] = "post_used" /\ t \in Clients THEN accepted \cup {val[t]} ELSE accepted
  BY <1>1, QuietSteps DEF InQueue, Go, QInv
<1>3. t \in Workers => from \in {"wait_used", "lock_consume", "post_empty"} /\ doing[t] = "compare"
  BY <1>1, <1>2 DEF PoolInv, PoolPlaces
<1>4. t \notin Workers => from \in {"wait_empty", "lock_produce", "post_used"}
  BY <1>1, <1>2 DEF PoolInv, PoolPlaces
<1>5. \A u \in Threads : Carried(u)' = Carried(u)
  BY <1>1, <1>2, <1>3, <1>4 DEF Carried, Taken
<1>6. \A w \in Workers : Poisoned(w)' = Poisoned(w) /\ Taken(w)' = Taken(w)
  BY <1>1, <1>2, <1>3, <1>4 DEF Poisoned, Taken
<1>7. \A r : Kept(r)' = Kept(r)
  BY <1>2, <1>5 DEF Kept
<1>8. pool # "constructing"
  BY <1>1, <1>2 DEF PoolInv, PoolPhases
<1>9. from = "post_used" /\ t \in Clients => val[t] \in Requests /\ Kept(val[t])
  BY <1>2 DEF PoolInv, PoolPlaces, PoolKeeps
<1>10. PoolTypes'
  BY <1>2, <1>9 DEF PoolInv, PoolTypes
<1>11. PoolPlaces'
  BY <1>1, <1>2, <1>3, <1>4, <1>6 DEF PoolInv, PoolPlaces
<1>12. PoolPhases'
  BY <1>1, <1>2, <1>8 DEF PoolInv, PoolPhases
<1>13. PoolOrder'
  BY <1>2, <1>6 DEF PoolInv, PoolOrder
<1>14. PoolOnce'
  BY <1>2, <1>5 DEF PoolInv, PoolOnce
<1>15. PoolKeeps'
  BY <1>1, <1>2, <1>7, <1>9 DEF PoolInv, PoolKeeps
<1> QED
  BY <1>10, <1>11, <1>12, <1>13, <1>14, <1>15 DEF PoolInv

\* A client or the destructor puts in what it carries: a request while no
\* poison is there, a poison behind everything.
LEMMA CopyInInQueueInv ==
  ASSUME PoolInv, QInv, NEW t \in Threads, InQueue(t), CopyIn(t)
  PROVE  PoolInv'
<1> USE Parts
<1>1. /\ Queue' = Append(Queue, val[t]) /\ Queue \in Seq(Values) /\ val[t] \in Values
      /\ val' = val /\ at[t] = "copy_in" /\ at' = [at EXCEPT ![t] = "post_used"]
      /\ pool # "aborted" /\ UNCHANGED <<pool, doing, poison_, todo, handled, accepted>>
      /\ at \in [Threads -> Places]
  BY CopyInAppends, QueueSeq DEF InQueue, CopyIn, Go, QInv
<1>2. InSeq(Queue') = InSeq(Queue) \cup {val[t]}
  BY <1>1, InAppended
<1>3. t \notin Workers /\ val[t] \in (IF t = Main THEN {Poison} ELSE Requests)
  BY <1>1 DEF PoolInv, PoolPlaces
<1>4. /\ t = Main => val[t] = Poison /\ val[t] \notin Requests /\ Carried(t) = {}
                     /\ pool \notin {"constructing", "open", "gone"}
      /\ t # Main => /\ t \in Clients /\ val[t] \in Requests /\ Carried(t) = {val[t]}
                     /\ pool = "open" /\ val[t] # Poison
  BY <1>1, <1>3, PoolAssumption DEF Carried, PoolInv, PoolPhases, PoolTypes
<1>5. Carried(t)' = {} /\ \A u \in Threads \ {t} : Carried(u)' = Carried(u)
  BY <1>1, <1>3 DEF Carried, Taken
<1>6. \A w \in Workers : Poisoned(w)' = Poisoned(w) /\ Taken(w)' = Taken(w)
  BY <1>1, <1>3 DEF Poisoned, Taken
<1>7. val[t] \in Requests => Poison \notin InSeq(Queue) /\ val[t] \notin InSeq(Queue)
  BY <1>1, <1>4 DEF PoolInv, PoolOrder, PoolOnce
<1>8. GoodQueue(Queue)'
  <2>1. GoodQueue(Append(Queue, val[t]))
    BY <1>1, <1>4, <1>7, GoodAppend DEF PoolInv, PoolOrder
  <2>2. GoodQueue(Queue')
    BY <1>1, <2>1
  <2> QED
    BY <2>2 DEF GoodQueue, InSeq
<1>9. PoolTypes'
  BY <1>1 DEF PoolInv, PoolTypes
<1>10. PoolPlaces'
  BY <1>1, <1>3, <1>6 DEF PoolInv, PoolPlaces
<1>11. PoolPhases'
  BY <1>1, <1>4 DEF PoolInv, PoolPhases
<1>12. PoolOrder'
  BY <1>1, <1>2, <1>4, <1>6, <1>8 DEF PoolInv, PoolOrder
<1>13. PoolOnce'
  <2>1. \A c \in Clients : todo[c] \subseteq Requests
    BY DEF PoolInv, PoolTypes
  <2>2. \A u \in Threads : Carried(u) \subseteq Requests
    BY DEF Carried
  <2>3. InSeq(Queue') \cap Requests = (InSeq(Queue) \cap Requests) \cup Carried(t)
    BY <1>2, <1>4
  <2>4. \A u \in Threads : Carried(u)' \subseteq Carried(u) /\ Carried(u)' \cap Carried(t) = {}
    BY <1>1, <1>5 DEF PoolInv, PoolOnce
  <2>5. \A c \in Clients : todo'[c] \cap InSeq(Queue') = {}
    BY <1>1, <2>1, <2>3 DEF PoolInv, PoolOnce
  <2>6. \A u \in Threads : Carried(u)' \cap InSeq(Queue') = {}
    BY <1>1, <2>2, <2>3, <2>4 DEF PoolInv, PoolOnce
  <2>7. \A r \in Requests : handled'[r] = 1 =>
          /\ r \notin InSeq(Queue')
          /\ \A c \in Clients : r \notin todo'[c]
          /\ \A u \in Threads : r \notin Carried(u)'
    BY <1>1, <2>3, <2>4 DEF PoolInv, PoolOnce
  <2>8. /\ \A u, v \in Threads : u = v \/ Carried(u)' \cap Carried(v)' = {}
        /\ \A c \in Clients, u \in Threads : todo'[c] \cap Carried(u)' = {}
    BY <1>1, <2>4 DEF PoolInv, PoolOnce
  <2> QED
    BY <1>1, <2>5, <2>6, <2>7, <2>8 DEF PoolInv, PoolOnce, InSeq
<1>14. \A r : Kept(r) => Kept(r)'
  BY <1>1, <1>2, <1>3, <1>5 DEF Kept
<1>15. Kept(val[t])'
  BY <1>1, <1>2 DEF Kept
<1>16. PoolKeeps'
  <2>1. \A r \in accepted' : Kept(r)'
    BY <1>1, <1>14 DEF PoolInv, PoolKeeps
  <2>2. ASSUME NEW c \in Clients, at'[c] = "post_used" PROVE Kept(val[c])'
    BY <1>1, <1>14, <1>15, <2>2 DEF PoolInv, PoolKeeps
  <2> QED
    BY <2>1, <2>2 DEF PoolKeeps
<1> QED
  BY <1>9, <1>10, <1>11, <1>12, <1>13, <1>16 DEF PoolInv

\* A worker takes what is first in the queue; behind a poison there is only
\* poison.
LEMMA CopyOutInQueueInv ==
  ASSUME PoolInv, QInv, NEW t \in Threads, InQueue(t), CopyOut(t)
  PROVE  PoolInv'
<1> USE Parts
<1>1. /\ Queue # <<>> /\ Queue' = Tail(Queue) /\ Queue \in Seq(Values)
      /\ val' = [val EXCEPT ![t] = Head(Queue)]
      /\ at[t] = "copy_out" /\ at' = [at EXCEPT ![t] = "post_empty"]
      /\ pool # "aborted" /\ UNCHANGED <<pool, doing, poison_, todo, handled, accepted>>
      /\ at \in [Threads -> Places] /\ val \in [Threads -> Values]
  BY CopyOutTakes, QueueSeq DEF InQueue, CopyOut, Go, QInv
<1> DEFINE x == Head(Queue)
<1>2. InSeq(Queue) = InSeq(Queue') \cup {x} /\ x \in InSeq(Queue)
  BY <1>1, InTail
<1>3. /\ GoodQueue(Queue') /\ x \in Requests \cup {Poison}
      /\ x = Poison => InSeq(Queue') \subseteq {Poison}
      /\ x \in Requests => x \notin InSeq(Queue')
  <2>1. GoodQueue(Queue)
    BY DEF PoolInv, PoolOrder
  <2> QED
    BY <1>1, <2>1, GoodTail
<1>4. GoodQueue(Queue)'
  BY <1>3 DEF GoodQueue, InSeq
<1>5. t \in Workers /\ doing[t] = "compare"
  BY <1>1 DEF PoolInv, PoolPlaces
<1>6. pool # "constructing" /\ pool # "gone"
  BY <1>1, <1>5 DEF PoolInv, PoolPhases
<1> HIDE DEF x
<1>7. val'[t] = x /\ \A u \in Threads \ {t} : val'[u] = val[u] /\ at'[u] = at[u]
  BY <1>1 DEF x
<1>8. /\ Carried(t) = {} /\ Carried(t)' = {x} \cap Requests
      /\ \A u \in Threads \ {t} : Carried(u)' = Carried(u)
  BY <1>1, <1>5, <1>7 DEF Carried, Taken
<1>9. /\ Taken(t)' /\ Poisoned(t)' = (x = Poison)
      /\ \A w \in Workers \ {t} : Poisoned(w)' = Poisoned(w) /\ Taken(w)' = Taken(w)
  BY <1>1, <1>5, <1>7 DEF Poisoned, Taken
<1>10. PoolTypes'
  BY <1>1 DEF PoolInv, PoolTypes
<1>11. PoolPlaces'
  BY <1>1, <1>3, <1>5, <1>7, <1>9 DEF PoolInv, PoolPlaces
<1>12. PoolPhases'
  BY <1>1, <1>5, <1>6 DEF PoolInv, PoolPhases
<1>13. PoolOrder'
  <2>1. pool = "open" => Poison \notin InSeq(Queue') /\ \A w \in Workers : ~Poisoned(w)'
    BY <1>2, <1>9 DEF PoolInv, PoolOrder
  <2>2. \A w \in Workers : Poisoned(w)' => InSeq(Queue') \subseteq {Poison}
    BY <1>1, <1>2, <1>3, <1>9 DEF PoolInv, PoolOrder
  <2> QED
    BY <1>1, <1>4, <1>6, <2>1, <2>2 DEF PoolOrder, InSeq
<1>14. PoolOnce'
  <2>1. InSeq(Queue') \subseteq InSeq(Queue) /\ Carried(t)' \subseteq InSeq(Queue)
    BY <1>2, <1>8
  <2>2. Carried(t)' \cap InSeq(Queue') = {}
    BY <1>3, <1>8
  <2>3. \A u, v \in Threads : u = v \/ Carried(u)' \cap Carried(v)' = {}
    BY <1>1, <1>8, <2>1 DEF PoolInv, PoolOnce
  <2>4. \A c \in Clients, u \in Threads : todo'[c] \cap Carried(u)' = {}
    BY <1>1, <1>8, <2>1 DEF PoolInv, PoolOnce
  <2>5. \A c \in Clients : todo'[c] \cap InSeq(Queue') = {}
    BY <1>1, <2>1 DEF PoolInv, PoolOnce
  <2>6. \A u \in Threads : Carried(u)' \cap InSeq(Queue') = {}
    BY <1>1, <1>8, <2>1, <2>2 DEF PoolInv, PoolOnce
  <2>7. \A r \in Requests : handled'[r] = 1 =>
          /\ r \notin InSeq(Queue')
          /\ \A c \in Clients : r \notin todo'[c]
          /\ \A u \in Threads : r \notin Carried(u)'
    BY <1>1, <1>8, <2>1 DEF PoolInv, PoolOnce
  <2> QED
    BY <1>1, <2>3, <2>4, <2>5, <2>6, <2>7 DEF PoolInv, PoolOnce, InSeq
<1>15. \A r \in Requests : Kept(r) => Kept(r)'
  BY <1>1, <1>2, <1>5, <1>8 DEF Kept
<1>16. PoolKeeps'
  <2>1. \A r \in accepted' : Kept(r)'
    BY <1>1, <1>15 DEF PoolInv, PoolKeeps, PoolTypes
  <2>2. ASSUME NEW c \in Clients, at'[c] = "post_used" PROVE Kept(val[c])'
    <3>1. at[c] = "post_used" /\ val'[c] = val[c] /\ val[c] \in Requests
      BY <1>1, <1>5, <1>7, <2>2 DEF PoolInv, PoolPlaces
    <3>2. Kept(val[c])
      BY <1>1, <3>1 DEF PoolInv, PoolKeeps
    <3> QED
      BY <1>1, <1>2, <1>5, <1>8, <3>1, <3>2 DEF Kept
  <2> QED
    BY <2>1, <2>2 DEF PoolKeeps
<1> QED
  BY <1>10, <1>11, <1>12, <1>13, <1>14, <1>16 DEF PoolInv

\* A client whose copy throws has its request back; elsewhere the process ends.
LEMMA ThrowInv ==
  ASSUME PoolInv, QInv, NEW t \in Threads, ThrowInQueue(t)
  PROVE  PoolInv'
<1> USE Parts
<1>1. Queue' = Queue
  BY QueueStays DEF ThrowInQueue, Throw
<1>2. PICK from \in {"copy_in", "copy_out"} :
        /\ at[t] = from /\ at' = [at EXCEPT ![t] = "out"]
        /\ val' = val
        /\ pool # "aborted" /\ UNCHANGED <<doing, poison_, todo, accepted, handled>>
        /\ pool' = IF t \in Clients THEN pool ELSE "aborted"
        /\ at \in [Threads -> Places]
  BY DEF ThrowInQueue, Throw, ThrowIn, ThrowOut, Go, QInv
<1>3. pool # "constructing"
  BY <1>2 DEF PoolInv, PoolPhases
<1>4. GoodQueue(Queue)'
  BY <1>1 DEF PoolInv, PoolOrder, GoodQueue, InSeq
<1>5. PoolTypes'
  BY <1>2 DEF PoolInv, PoolTypes
<1>6. CASE t \notin Clients
  <2>1. pool' = "aborted"
    BY <1>2, <1>6
  <2>2. PoolPlaces'
    BY <1>2, <2>1 DEF PoolInv, PoolPlaces
  <2>3. PoolPhases' /\ PoolOrder' /\ PoolOnce' /\ PoolKeeps'
    BY <1>2, <1>3, <1>4, <2>1 DEF PoolInv, PoolPhases, PoolOrder, PoolOnce, PoolKeeps
  <2> QED
    BY <1>5, <2>2, <2>3 DEF PoolInv
<1>7. CASE t \in Clients
  <2>1. pool' = pool /\ t \notin Workers
    BY <1>2, <1>7
  <2>2. Carried(t)' = {} /\ \A u \in Threads \ {t} : Carried(u)' = Carried(u)
    BY <1>2, <2>1 DEF Carried, Taken
  <2>3. \A w \in Workers : Poisoned(w)' = Poisoned(w) /\ Taken(w)' = Taken(w)
    BY <1>2, <2>1 DEF Poisoned, Taken
  <2>4. PoolPlaces'
    BY <1>2, <2>1, <2>3 DEF PoolInv, PoolPlaces
  <2>5. PoolPhases'
    BY <1>2, <1>3, <2>1 DEF PoolInv, PoolPhases
  <2>6. PoolOrder'
    BY <1>1, <1>2, <1>4, <2>1, <2>3 DEF PoolInv, PoolOrder
  <2>7. PoolOnce'
    BY <1>1, <1>2, <2>1, <2>2 DEF PoolInv, PoolOnce
  <2>8. \A r : Kept(r)' = Kept(r)
    BY <1>1, <1>2, <2>1, <2>2 DEF Kept
  <2>9. PoolKeeps'
    BY <1>2, <2>1, <2>8 DEF PoolInv, PoolKeeps
  <2> QED
    BY <1>5, <2>4, <2>5, <2>6, <2>7, <2>9 DEF PoolInv
<1> QED
  BY <1>6, <1>7

\* Every step keeps the invariant.
LEMMA PNextInv == QInv /\ PoolInv /\ [PNext]_pvars => PoolInv'
<1> SUFFICES ASSUME QInv, PoolInv, [PNext]_pvars PROVE PoolInv'
  OBVIOUS
<1>1. CASE UNCHANGED pvars
  <2>1. UNCHANGED qvars /\ UNCHANGED own
    BY <1>1 DEF pvars
  <2>2. Queue' = Queue /\ at' = at /\ val' = val /\ used_' = used_
    BY <2>1, QueueSame
  <2>3. UNCHANGED <<pool, doing, poison_, todo, accepted, handled>>
    BY <2>1 DEF own
  <2>4. /\ \A t : Carried(t)' = Carried(t) /\ Taken(t)' = Taken(t) /\ Poisoned(t)' = Poisoned(t)
        /\ InSeq(Queue)' = InSeq(Queue)
    BY <2>2, <2>3 DEF Carried, Taken, Poisoned, InSeq
  <2>5. PoolTypes' /\ PoolPlaces' /\ PoolPhases'
    BY <2>2, <2>3, <2>4 DEF PoolInv, PoolTypes, PoolPlaces, PoolPhases
  <2>6. PoolOrder' /\ PoolOnce'
    BY <2>2, <2>3, <2>4 DEF PoolInv, PoolOrder, PoolOnce, GoodQueue
  <2>7. PoolKeeps'
    BY <2>2, <2>3, <2>4 DEF PoolInv, PoolKeeps, Kept
  <2> QED
    BY <2>5, <2>6, <2>7 DEF PoolInv
<1>2. ASSUME NEW t \in Threads, InQueue(t) PROVE PoolInv'
  <2>1. CASE CopyIn(t)
    BY <1>2, <2>1, CopyInInQueueInv
  <2>2. CASE CopyOut(t)
    BY <1>2, <2>2, CopyOutInQueueInv
  <2>3. CASE ~CopyIn(t) /\ ~CopyOut(t)
    BY <1>2, <2>3, QuietInv DEF InQueue, GoOn
  <2> QED
    BY <2>1, <2>2, <2>3
<1>3. CASE MainStep
  BY <1>2, <1>3, MainInv, ProducePoisonInv, Parts DEF MainStep
<1>4. ASSUME NEW c \in Clients, ClientStep(c) PROVE PoolInv'
  BY <1>2, <1>4, SubmitInv, Parts DEF ClientStep
<1>5. ASSUME NEW w \in Workers, WorkerStep(w) PROVE PoolInv'
  BY <1>2, <1>5, WorkerConsumeInv, WorkerCompareInv, WorkerHandleInv, Parts DEF WorkerStep
<1>6. ASSUME NEW t \in Threads, ThrowInQueue(t) PROVE PoolInv'
  BY <1>6, ThrowInv
<1> QED
  BY <1>1, <1>3, <1>4, <1>5, <1>6 DEF PNext

\* The invariant of the pool and of its queue hold together.
LEMMA PoolInvariant == PSpec => [](QInv /\ PoolInv)
<1>1. PSpec => []QInv
  <2>1. PSpec => QSpec
    BY PoolStep, PTL DEF PSpec, QSpec, PInit
  <2> QED
    BY <2>1, QInvariant
<1> QED
  BY <1>1, PInitInv, PNextInv, PTL DEF PSpec

\* A worker has its poison before it compares anything with it, although its
\* thread runs before poison_ is constructed (thread_pool.hh:22, :29), for until
\* then the queue is empty; and what it handles is always a request.
THEOREM PoolTypesHold == PSpec => []PoolTypeOK
<1>1. PoolInv => PoolTypeOK
  BY DEF PoolInv, PoolTypes, PoolPlaces, PoolPhases, PoolTypeOK
<1> QED
  BY <1>1, PoolInvariant, PTL

\* With at least one worker, a pool that has been destroyed has handled every
\* request whose Produce returned, and it never handles one twice
\* (thread_pool.hh:69-76): the poisons are behind all requests.
THEOREM RequestsAreHandledOnce == Workers # {} => (PSpec => []HandledOnce)
<1> SUFFICES ASSUME Workers # {} PROVE PSpec => []HandledOnce
  OBVIOUS
<1>1. PoolInv => HandledOnce
  <2> SUFFICES ASSUME PoolInv PROVE HandledOnce
    OBVIOUS
  <2>1. \A r \in Requests : handled[r] <= 1
    BY DEF PoolInv, PoolOnce
  <2>2. ASSUME pool = "gone" PROVE At(Places \ {"out"}) = {}
    <3>1. \A w \in Workers : at[w] = "out"
      BY <2>2 DEF PoolInv, PoolPhases, PoolPlaces
    <3>2. \A t \in Threads \ Workers : at[t] = "out"
      BY <2>2, Parts DEF PoolInv, PoolPhases
    <3> QED
      BY <3>1, <3>2 DEF At
  <2>3. ASSUME pool = "gone", NEW r \in accepted PROVE handled[r] = 1
    <3>1. \A w \in Workers : doing[w] = "returned"
      BY <2>3 DEF PoolInv, PoolPhases
    <3>2. InSeq(Queue) \subseteq {Poison}
      BY <2>3, <3>1 DEF PoolInv, PoolOrder, Poisoned
    <3>3. \A w \in Workers : Carried(w) = {}
      BY <2>3, <3>1, Parts DEF Carried, Taken, PoolInv, PoolPlaces
    <3>4. Kept(r) /\ r \in Requests
      BY <2>3 DEF PoolInv, PoolKeeps, PoolTypes
    <3> QED
      BY <3>2, <3>3, <3>4, PoolAssumption DEF Kept
  <2> QED
    BY <2>1, <2>2, <2>3 DEF HandledOnce
<1> QED
  BY <1>1, PoolInvariant, PTL
=============================================================================
