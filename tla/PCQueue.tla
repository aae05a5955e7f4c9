------------------------------- MODULE PCQueue -------------------------------
(***************************************************************************)
(* PCQueue (util/pcqueue.hh:31-101): a ring of Size slots that any number  *)
(* of threads produce into and consume from, guarded by two semaphores and *)
(* two mutexes.  A thread moves from one of these to the next in its own   *)
(* step; the copy of a value is a step too, from "copy_in" to its end, so  *)
(* that two copies may overlap.                                            *)
(***************************************************************************)
EXTENDS Integers, FiniteSets

CONSTANTS
  Threads,
  Values,       (* of type T                                               *)
  Default,      (* the value of a T that was only constructed              *)
  Size,
  Throwing      (* the threads whose copies may throw                      *)

ASSUME QueueAssumption ==
  /\ Size \in Nat \ {0} /\ Default \in Values
  /\ IsFiniteSet(Threads) /\ Throwing \subseteq Threads

VARIABLES
  empty_, used_,              (* the semaphores                            *)
  storage_, produce_at_, consume_at_,
  at,                         (* where each thread is in its call          *)
  val                         (* what it produces, or consumed last        *)

ring == <<storage_, produce_at_, consume_at_>>
qvars == <<empty_, used_, ring, at, val>>

\* A slip: one place more than there are slots.
OneTooMany ==
  /\ empty_ = Size + 1 /\ used_ = 0
  /\ storage_ = [k \in 0 .. Size - 1 |-> Default]
  /\ produce_at_ = 0 /\ consume_at_ = 0
  /\ at = [t \in Threads |-> "out"]
  /\ val = [t \in Threads |-> Default]

QInit ==
  /\ empty_ = Size /\ used_ = 0
  /\ storage_ = [k \in 0 .. Size - 1 |-> Default]
  /\ produce_at_ = 0 /\ consume_at_ = 0
  /\ at = [t \in Threads |-> "out"]
  /\ val = [t \in Threads |-> Default]

At(places) == {t \in Threads : at[t] \in places}

Go(t, from, to) == at[t] = from /\ at' = [at EXCEPT ![t] = to]

Produce(t, v) ==
  /\ Go(t, "out", "wait_empty")
  /\ val' = [val EXCEPT ![t] = v]
  /\ UNCHANGED <<empty_, used_, ring>>

Consume(t) == Go(t, "out", "wait_used") /\ UNCHANGED <<empty_, used_, ring, val>>

-----------------------------------------------------------------------------
WaitEmpty(t) ==
  /\ Go(t, "wait_empty", "lock_produce")
  /\ empty_ > 0 /\ empty_' = empty_ - 1
  /\ UNCHANGED <<used_, ring, val>>

WaitUsed(t) ==
  /\ Go(t, "wait_used", "lock_consume")
  /\ used_ > 0 /\ used_' = used_ - 1
  /\ UNCHANGED <<empty_, ring, val>>

\* produce_at_mutex_ is held by the thread that copies in, consume_at_mutex_ by
\* the one that copies out.
LockProduce(t) ==
  /\ Go(t, "lock_produce", "copy_in")
  /\ At({"copy_in"}) = {}
  /\ UNCHANGED <<empty_, used_, ring, val>>

LockConsume(t) ==
  /\ Go(t, "lock_consume", "copy_out")
  /\ At({"copy_out"}) = {}
  /\ UNCHANGED <<empty_, used_, ring, val>>

\* The slot after k.
Advanced(k) == IF k + 1 = Size THEN 0 ELSE k + 1

CopyIn(t) ==
  /\ Go(t, "copy_in", "post_used")
  /\ storage_' = [storage_ EXCEPT ![produce_at_] = val[t]]
  /\ produce_at_' = Advanced(produce_at_)
  /\ UNCHANGED <<empty_, used_, consume_at_, val>>

CopyOut(t) ==
  /\ Go(t, "copy_out", "post_empty")
  /\ val' = [val EXCEPT ![t] = storage_[consume_at_]]
  /\ consume_at_' = Advanced(consume_at_)
  /\ UNCHANGED <<empty_, used_, storage_, produce_at_>>

\* operator= throws: the semaphore is posted back, the slot may hold anything.
ThrowIn(t) ==
  /\ t \in Throwing
  /\ Go(t, "copy_in", "out")
  /\ \E junk \in Values : storage_' = [storage_ EXCEPT ![produce_at_] = junk]
  /\ empty_' = empty_ + 1
  /\ UNCHANGED <<used_, produce_at_, consume_at_, val>>

\* A slip: the value is not posted back, and so is lost.
ThrowOutUnposted(t) ==
  /\ t \in Throwing
  /\ Go(t, "copy_out", "out")
  /\ UNCHANGED <<empty_, used_, ring, val>>

ThrowOut(t) ==
  /\ t \in Throwing
  /\ Go(t, "copy_out", "out")
  /\ used_' = used_ + 1
  /\ UNCHANGED <<empty_, ring, val>>

PostUsed(t) ==
  /\ Go(t, "post_used", "out")
  /\ used_' = used_ + 1
  /\ UNCHANGED <<empty_, ring, val>>

PostEmpty(t) ==
  /\ Go(t, "post_empty", "out")
  /\ empty_' = empty_ + 1
  /\ UNCHANGED <<used_, ring, val>>

\* A thread goes on inside its call.
GoOn(t) ==
  \/ WaitEmpty(t) \/ LockProduce(t) \/ CopyIn(t) \/ PostUsed(t)
  \/ WaitUsed(t) \/ LockConsume(t) \/ CopyOut(t) \/ PostEmpty(t)

Throw(t) == ThrowIn(t) \/ ThrowOut(t)

QNext == \E t \in Threads :
  Consume(t) \/ GoOn(t) \/ Throw(t) \/ \E v \in Values : Produce(t, v)

QSpec == QInit /\ [][QNext]_qvars

-----------------------------------------------------------------------------
\* Values that are in the ring, posted or not, and not yet copied out.
Held == used_ + Cardinality(At({"post_used", "lock_consume", "copy_out"}))

\* Places a producer may still fill.
Free == empty_ + Cardinality(At({"lock_produce", "copy_in", "post_empty"}))

Places == {"out", "wait_empty", "lock_produce", "copy_in", "post_used",
           "wait_used", "lock_consume", "copy_out", "post_empty"}

\* Types: the semaphores never count more than there are slots (a semaphore
\* posted once too often is never noticed by the code).
QTypeOK ==
  /\ empty_ \in 0 .. Size /\ used_ \in 0 .. Size
  /\ storage_ \in [0 .. Size - 1 -> Values]
  /\ produce_at_ \in 0 .. Size - 1 /\ consume_at_ \in 0 .. Size - 1
  /\ at \in [Threads -> Places] /\ val \in [Threads -> Values]

\* No slot is written while it is read or written, nor read by two threads,
\* however producers and consumers overtake each other between semaphore,
\* mutex and post (pcqueue.hh:46, :63).
NoRace ==
  /\ \A t, u \in At({"copy_in"}) : t = u
  /\ \A t, u \in At({"copy_out"}) : t = u
  /\ At({"copy_in"}) # {} /\ At({"copy_out"}) # {} => produce_at_ # consume_at_

\* A place behind the end of the ring is one at its beginning.
Wrapped(k) == IF k < Size THEN k ELSE k - Size

\* The values held, in the order they leave.
Queue == [k \in 1 .. Held |-> storage_[Wrapped(consume_at_ + k - 1)]]

\* What a thread at a place is in: a call takes effect with its copy.
OpAt(place) ==
  CASE place = "out" -> "none"
    [] place \in {"wait_empty", "lock_produce", "copy_in"} -> "put"
    [] place \in {"wait_used", "lock_consume", "copy_out"} -> "take"
    [] place \in {"post_used", "post_empty"} -> "done"

Fifo == INSTANCE BoundedFifo WITH
  Callers <- Threads,
  Items   <- Values,
  Bound   <- Size,
  Unreliable <- Throwing,
  queue   <- Queue,
  op      <- [t \in Threads |-> OpAt(at[t])],
  item    <- val

\* "Producer consumer queue safe for multiple producers and multiple
\* consumers", with a "strong exception guarantee" (pcqueue.hh:25-30): every
\* call takes effect at once or not at all, in the order of a bounded FIFO.
ImplementsFifo == Fifo!BSpec
=============================================================================
