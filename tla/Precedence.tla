----------------------------- MODULE Precedence -----------------------------
(***************************************************************************)
(* What ties the operations of a problem to one another and to the start   *)
(* of the horizon (synaps/model.py): the chains of orders, the precedence  *)
(* edges and the releases, as the dispatchers, the notary and the          *)
(* constraint model all read them.                                         *)
(***************************************************************************)
EXTENDS DispatchTimeline

CONSTANTS
  PredecessorOf,  \* operation.predecessor_op_id, or None
  Edges,          \* PrecedenceEdge records: src, dst, type, min_lag
  Release         \* order release date or earliest_start, whichever is later

ASSUME PrecedenceAssumption ==
  /\ PredecessorOf \in [Ops -> Ops \cup {None}]
  /\ IsFiniteSet(Edges)
  /\ \A e \in Edges :
       e.src \in Ops /\ e.dst \in Ops /\ e.min_lag \in Int /\ e.type \in {"FS", "SS", "FF", "SF"}
  /\ Release \in [Ops -> Nat]
=============================================================================
