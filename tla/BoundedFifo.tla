----------------------------- MODULE BoundedFifo -----------------------------
(***************************************************************************)
(* What PCQueue promises (util/pcqueue.hh:25-30): a first-in first-out     *)
(* queue of bounded length for any number of threads.  A call takes effect *)
(* at one moment between its beginning and its end; or it throws, and then *)
(* takes none.                                                             *)
(***************************************************************************)
EXTENDS Naturals, Sequences

CONSTANTS
  Callers, Items, Bound,
  Unreliable  (* the callers whose calls may throw                         *)

VARIABLES
  queue,
  op,     (* for each caller what it is in: "none", "put" or "take" before *)
          (* the call took effect, "done" after                            *)
  item    (* for each caller what it puts, or what it took last            *)

bvars == <<queue, op, item>>

BInit ==
  /\ queue = <<>>
  /\ op = [c \in Callers |-> "none"]
  /\ item \in [Callers -> Items]

Begin(c) ==
  /\ op[c] = "none"
  /\ \/ op' = [op EXCEPT ![c] = "put"] /\ \E x \in Items : item' = [item EXCEPT ![c] = x]
     \/ op' = [op EXCEPT ![c] = "take"] /\ UNCHANGED item
  /\ UNCHANGED queue

Put(c) ==
  /\ op[c] = "put" /\ Len(queue) < Bound
  /\ queue' = Append(queue, item[c])
  /\ op' = [op EXCEPT ![c] = "done"]
  /\ UNCHANGED item

Take(c) ==
  /\ op[c] = "take" /\ queue # <<>>
  /\ queue' = Tail(queue)
  /\ item' = [item EXCEPT ![c] = Head(queue)]
  /\ op' = [op EXCEPT ![c] = "done"]

\* A call returns once it took effect, or throws before.
End(c) ==
  /\ op[c] = "done" \/ (c \in Unreliable /\ op[c] \in {"put", "take"})
  /\ op' = [op EXCEPT ![c] = "none"]
  /\ UNCHANGED <<queue, item>>

BNext == \E c \in Callers : Begin(c) \/ Put(c) \/ Take(c) \/ End(c)

BSpec == BInit /\ [][BNext]_bvars
=============================================================================
