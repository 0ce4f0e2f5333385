---------------------------- MODULE CacheModel ----------------------------
(***************************************************************************)
(* class CacheModel: the request counters every cache model has, and the   *)
(* requests that drive them.  access() is virtual: the module of a model   *)
(* says which of its accesses hit and passes the answer to CountRead or    *)
(* CountWrite.                                                             *)
(*                                                                         *)
(* The counters are 64 bits wide and no run of a program fills them; the   *)
(* bound MaxReqs on the requests of a behaviour stands for the length of   *)
(* the program's run.                                                      *)
(***************************************************************************)
EXTENDS Naturals

CONSTANT MaxReqs      \* bound on the number of requests of a behaviour

ASSUME MaxReqsAssumption == MaxReqs \in Nat

VARIABLES m_rd_reqs, m_wr_reqs, m_rd_hits, m_wr_hits

counters == <<m_rd_reqs, m_wr_reqs, m_rd_hits, m_wr_hits>>

CountersInit ==
  /\ m_rd_reqs = 0
  /\ m_wr_reqs = 0
  /\ m_rd_hits = 0
  /\ m_wr_hits = 0

Requests == m_rd_reqs + m_wr_reqs

Hits == m_rd_hits + m_wr_hits

One(hit) == IF hit THEN 1 ELSE 0

(***************************************************************************)
(* A faulty readReq, for the mutation check: the hit goes to the counter   *)
(* of the writes.                                                          *)
(***************************************************************************)
CountReadHitAsWrite(hit) ==
  /\ Requests < MaxReqs
  /\ m_rd_reqs' = m_rd_reqs + 1
  /\ m_wr_hits' = m_wr_hits + One(hit)
  /\ UNCHANGED <<m_wr_reqs, m_rd_hits>>

(***************************************************************************)
(* readReq and writeReq: one more request, and one more hit when access()  *)
(* returned true.                                                          *)
(***************************************************************************)
CountRead(hit) ==
  /\ Requests < MaxReqs
  /\ m_rd_reqs' = m_rd_reqs + 1
  /\ m_rd_hits' = m_rd_hits + One(hit)
  /\ UNCHANGED <<m_wr_reqs, m_wr_hits>>

CountWrite(hit) ==
  /\ Requests < MaxReqs
  /\ m_wr_reqs' = m_wr_reqs + 1
  /\ m_wr_hits' = m_wr_hits + One(hit)
  /\ UNCHANGED <<m_rd_reqs, m_rd_hits>>

(***************************************************************************)
(* No counter exceeds the requests it counts.                              *)
(***************************************************************************)
CountersTypeOK ==
  /\ m_rd_reqs \in 0 .. MaxReqs
  /\ m_wr_reqs \in 0 .. MaxReqs
  /\ m_rd_hits \in 0 .. m_rd_reqs
  /\ m_wr_hits \in 0 .. m_wr_reqs
  /\ Requests <= MaxReqs

=============================================================================
