------------------------ MODULE MCImageBatchVarShape ------------------------
(* Two images that differ in format, width and height, and one, bad, that  *)
(* the batch refuses.                                                      *)
EXTENDS ImageBatchVarShape
CONSTANTS a, b, bad, f1, f2

MCFormatOf == [img \in Images |-> IF img = a THEN f1 ELSE f2]
MCSizeOf == [img \in Images |-> IF img = a THEN [w |-> 2, h |-> 1] ELSE [w |-> 1, h |-> 2]]
=============================================================================
