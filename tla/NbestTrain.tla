------------------------------ MODULE NbestTrain ------------------------------
(***************************************************************************)
(* The enumerator train_ of NbestHopeFearDecoder                           *)
(* (mert/HopeFearDecoder.cpp:51-76): --streaming decides in the            *)
(* constructor which of the two it is; reset(), next() and finished() are  *)
(* handed on to it.                                                        *)
(***************************************************************************)
EXTENDS RandomAccessHypPackEnumerator

VARIABLE streaming

tvars == <<rvars, streaming>>

TInit == RInit /\ streaming \in BOOLEAN

StreamingStep ==
  /\ streaming
  /\ SNext
  /\ UNCHANGED <<memory, m_cur_index, m_num_dense, loaded, streaming>>

RandomAccessStep ==
  /\ ~streaming
  /\ RNext
  /\ UNCHANGED streaming

TNext == StreamingStep \/ RandomAccessStep

TSpec == TInit /\ [][TNext]_tvars
=============================================================================
