--------------------------- MODULE MCTensorBatch ---------------------------
(* TensorBatch with two kinds of tensors: t1 and t2 agree, u does not. *)
EXTENDS TensorBatch
CONSTANTS t1, t2, u, k1, k2

MCKindOf == [t \in Tensors |-> IF t = u THEN k2 ELSE k1]
=============================================================================
