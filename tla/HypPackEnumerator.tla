-------------------------- MODULE HypPackEnumerator --------------------------
(***************************************************************************)
(* The interface kbmira iterates over (HypPackEnumerator.h:31-44), as a    *)
(* promise: a pass starts with reset(), every next() moves to a sentence   *)
(* the pass has not visited, and finished() holds only once all have been. *)
(***************************************************************************)
CONSTANT None

VARIABLES
  sentences,  (* the sentences of the data                                 *)
  current,    (* the sentence whose pack can be queried, None if finished  *)
  visited     (* the sentences of this pass, current included              *)

evars == <<sentences, current, visited>>

EInit == None \notin sentences /\ current = None /\ visited = {}

\* Move on to a sentence outside seen, or finish if there is none.
Visit(seen) ==
  /\ current' \in IF sentences \subseteq seen THEN {None} ELSE sentences \ seen
  /\ visited' = IF current' = None THEN seen ELSE seen \cup {current'}
  /\ UNCHANGED sentences

EReset == Visit({})

ENext == current # None /\ Visit(visited)

ESpec == EInit /\ [][EReset \/ ENext]_evars
=============================================================================
