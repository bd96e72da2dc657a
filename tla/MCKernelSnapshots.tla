------------------------- MODULE MCKernelSnapshots -------------------------
(* TLC instances of KernelSnapshots. *)
EXTENDS KernelSnapshots

(* Every way a dump may turn out. *)
AllShapes == ShapeType

(* Dumps that the size gates admit. *)
AdmittedShapes == {s \in ShapeType : s.admitted}
=============================================================================
