-------------------------------- MODULE MCPXI --------------------------------
(* pxi:mc, which needs no static buffers, and two services that do.         *)
EXTENDS PXI
MCNeeds == [i \in Services |-> IF i = 0 THEN 0 ELSE i]
=============================================================================
