----------------------------- MODULE MCSerialTx -----------------------------
(* A Fifo and packets of two bytes each.                                    *)
EXTENDS SerialTx
AllWirings == {"usart", "cdc", "echo"}
=============================================================================
