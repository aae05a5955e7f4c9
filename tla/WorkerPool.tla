------------------------------ MODULE WorkerPool ------------------------------
(***************************************************************************)
(* ThreadPool and Worker (util/thread_pool.hh:16-91) around a PCQueue:    *)
(* one thread constructs and destroys the pool, clients produce requests   *)
(* in between, workers consume and handle them until they meet the poison. *)
(***************************************************************************)
EXTENDS PCQueue

CONSTANTS
  Main,         (* the thread that constructs and destroys the pool        *)
  Clients,      (* threads that produce while it is there                  *)
  Workers,      (* the threads the pool starts                             *)
  Poison,
  Requests,
  Refused       (* the requests whose handler throws                       *)

ASSUME PoolAssumption ==
  /\ Threads = {Main} \cup Clients \cup Workers
  /\ Main \notin Clients \cup Workers /\ Clients \cap Workers = {}
  /\ Values = {Default, Poison} \cup Requests
  /\ Poison \notin Requests

VARIABLES
  pool,         (* what Main is at; "aborted" ends the process             *)
  doing,        (* what each worker is at                                  *)
  poison_,      (* the poison of each worker, Default until constructed    *)
  toPoison,     (* the workers the destructor has a poison left for        *)
  todo,         (* the requests each client has left                       *)
  accepted,     (* the requests whose Produce returned                     *)
  handled       (* how often each request was handled                      *)

own == <<pool, doing, poison_, toPoison, todo, accepted, handled>>
pvars == <<qvars, own>>

PInit ==
  /\ QInit
  /\ pool = "constructing"
  /\ doing = [w \in Workers |-> "unborn"]
  /\ poison_ = [w \in Workers |-> Default]
  /\ toPoison = Workers
  /\ todo \in {f \in [Clients -> SUBSET Requests] :
                 \A c, d \in Clients : c = d \/ f[c] \cap f[d] = {}}
  /\ accepted = {}
  /\ handled = [r \in Requests |-> 0]

-----------------------------------------------------------------------------
\* The constructor of Worker starts the thread before it copies the poison, for
\* thread_ is declared before poison_.
StartThread(w) ==
  /\ pool = "constructing"
  /\ doing[w] = "unborn"
  /\ \A v \in Workers : doing[v] # "unborn" => poison_[v] = Poison
  /\ doing' = [doing EXCEPT ![w] = "consume"]
  /\ UNCHANGED <<qvars, pool, poison_, toPoison, todo, accepted, handled>>

CopyPoison(w) ==
  /\ pool = "constructing"
  /\ doing[w] # "unborn" /\ poison_[w] # Poison
  /\ poison_' = [poison_ EXCEPT ![w] = Poison]
  /\ UNCHANGED <<qvars, pool, doing, toPoison, todo, accepted, handled>>

\* A slip: the pool is used once all threads have been started.
ConstructedEarly ==
  /\ pool = "constructing"
  /\ \A w \in Workers : doing[w] # "unborn"
  /\ pool' = "open"
  /\ UNCHANGED <<qvars, doing, poison_, toPoison, todo, accepted, handled>>

Constructed ==
  /\ pool = "constructing"
  /\ \A w \in Workers : poison_[w] = Poison
  /\ pool' = "open"
  /\ UNCHANGED <<qvars, doing, poison_, toPoison, todo, accepted, handled>>

Submit(c, r) ==
  /\ pool = "open"
  /\ r \in todo[c]
  /\ Produce(c, r)
  /\ todo' = [todo EXCEPT ![c] = @ \ {r}]
  /\ UNCHANGED <<pool, doing, poison_, toPoison, accepted, handled>>

\* The destructor may run when no client is in the pool or will come back.
Destroy ==
  /\ pool = "open"
  /\ \A c \in Clients : todo[c] = {} /\ at[c] = "out"
  /\ pool' = "poisoning"
  /\ UNCHANGED <<qvars, doing, poison_, toPoison, todo, accepted, handled>>

\* A slip: one worker gets no poison.
ProducePoisonButOne ==
  /\ pool = "poisoning"
  /\ \E w \in toPoison : toPoison' = toPoison \ {w} /\ toPoison' # {}
  /\ Produce(Main, Poison)
  /\ UNCHANGED <<pool, doing, poison_, todo, accepted, handled>>

ProducePoison ==
  /\ pool = "poisoning"
  /\ \E w \in toPoison : toPoison' = toPoison \ {w}
  /\ Produce(Main, Poison)
  /\ UNCHANGED <<pool, doing, poison_, todo, accepted, handled>>

\* A slip: the threads are not waited for.
Leave ==
  /\ pool = "poisoning" /\ toPoison = {} /\ at[Main] = "out"
  /\ pool' = "gone"
  /\ UNCHANGED <<qvars, doing, poison_, toPoison, todo, accepted, handled>>

\* The joins, in any order the workers return.
Join ==
  /\ pool = "poisoning" /\ toPoison = {} /\ at[Main] = "out"
  /\ \A w \in Workers : doing[w] = "returned"
  /\ pool' = "gone"
  /\ UNCHANGED <<qvars, doing, poison_, toPoison, todo, accepted, handled>>

-----------------------------------------------------------------------------
WorkerConsume(w) ==
  /\ pool # "aborted"
  /\ doing[w] = "consume"
  /\ Consume(w)
  /\ doing' = [doing EXCEPT ![w] = "compare"]
  /\ UNCHANGED <<pool, poison_, toPoison, todo, accepted, handled>>

WorkerCompare(w) ==
  /\ pool # "aborted"
  /\ doing[w] = "compare" /\ at[w] = "out"
  /\ doing' = [doing EXCEPT ![w] = IF val[w] = poison_[w] THEN "returned" ELSE "handle"]
  /\ UNCHANGED <<qvars, pool, poison_, toPoison, todo, accepted, handled>>

\* A handler that throws ends the process.
WorkerHandle(w) ==
  /\ pool # "aborted"
  /\ doing[w] = "handle"
  /\ IF val[w] \in Refused
     THEN pool' = "aborted" /\ UNCHANGED <<doing, handled>>
     ELSE /\ handled' = [handled EXCEPT ![val[w]] = @ + 1]
          /\ doing' = [doing EXCEPT ![w] = "consume"]
          /\ UNCHANGED pool
  /\ UNCHANGED <<qvars, poison_, toPoison, todo, accepted>>

InQueue(t) ==
  /\ pool # "aborted"
  /\ GoOn(t)
  /\ accepted' = IF at[t] = "post_used" /\ t \in Clients
                 THEN accepted \cup {val[t]} ELSE accepted
  /\ UNCHANGED <<pool, doing, poison_, toPoison, todo, handled>>

\* A client learns of a throwing copy; in a worker or in the destructor nobody
\* catches it, and the process ends.
ThrowInQueue(t) ==
  /\ pool # "aborted"
  /\ Throw(t)
  /\ pool' = IF t \in Clients THEN pool ELSE "aborted"
  /\ UNCHANGED <<doing, poison_, toPoison, todo, accepted, handled>>

MainStep ==
  \/ \E w \in Workers : StartThread(w) \/ CopyPoison(w)
  \/ Constructed \/ Destroy \/ ProducePoison \/ Join
  \/ InQueue(Main)

ClientStep(c) == InQueue(c) \/ \E r \in Requests : Submit(c, r)

WorkerStep(w) == InQueue(w) \/ WorkerConsume(w) \/ WorkerCompare(w) \/ WorkerHandle(w)

PNext ==
  \/ MainStep
  \/ \E c \in Clients : ClientStep(c)
  \/ \E w \in Workers : WorkerStep(w)
  \/ \E t \in Threads : ThrowInQueue(t)

PSpec == PInit /\ [][PNext]_pvars

\* Every thread is scheduled; semaphores and mutexes need not be fair.
FairPSpec ==
  /\ PSpec
  /\ WF_pvars(MainStep)
  /\ \A c \in Clients : WF_pvars(ClientStep(c))
  /\ \A w \in Workers : WF_pvars(WorkerStep(w))

-----------------------------------------------------------------------------
\* Types: a worker that has something to compare has its poison by then,
\* although its thread runs before poison_ is constructed
\* (thread_pool.hh:22, :29); what it handles is a request.
PoolTypeOK ==
  /\ pool \in {"constructing", "open", "poisoning", "gone", "aborted"}
  /\ handled \in [Requests -> Nat] /\ accepted \subseteq Requests
  /\ \A w \in Workers :
       /\ poison_[w] \in {Default, Poison}
       /\ doing[w] = "compare" /\ at[w] \in {"post_empty", "out"} => poison_[w] = Poison
       /\ doing[w] = "handle" => val[w] \in Requests

\* When the destructor is done, every request whose Produce returned has been
\* handled, none twice, and no thread is in the queue any more.
HandledOnce ==
  /\ \A r \in Requests : handled[r] <= 1
  /\ pool = "gone" =>
       /\ \A r \in accepted : handled[r] = 1
       /\ At(Places \ {"out"}) = {}

\* The destructor comes to an end (thread_pool.hh:69-76): every worker gets its
\* poison although any worker may take any, and the bounded queue never blocks
\* all threads at once.
Terminates == <>(pool \in {"gone", "aborted"})
=============================================================================
