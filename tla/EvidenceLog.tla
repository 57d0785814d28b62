---------------------------- MODULE EvidenceLog ----------------------------
(***************************************************************************)
(* What a run's ordered stream promises its readers, whoever writes it and *)
(* however its writers die: a log that only grows, one numbered record at  *)
(* a time, where no record lands twice and a terminal never comes before   *)
(* the declaration it closes (internal/store doc.go, store.go).            *)
(***************************************************************************)
EXTENDS Naturals

CONSTANT Calls

Kinds == {"declaration", "terminal", "execution"}

Entry == [kind: Kinds, id: Calls, seq: Nat]

VARIABLE log

Landed(kind, id) == \E e \in log : e.kind = kind /\ e.id = id

Init == log = {}

Land(e) ==
  /\ e \in Entry
  /\ ~Landed(e.kind, e.id)
  /\ e.kind = "terminal" => Landed("declaration", e.id)
  /\ \A f \in log : f.seq < e.seq
  /\ log' = log \cup {e}

Next == \E e \in log' : Land(e)

Spec == Init /\ [][Next]_log

=============================================================================
