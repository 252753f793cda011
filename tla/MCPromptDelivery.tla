------------------------ MODULE MCPromptDelivery ------------------------
(* Small instances of PromptDelivery: two items of a parallel step.         *)
EXTENDS PromptDelivery
=============================================================================
