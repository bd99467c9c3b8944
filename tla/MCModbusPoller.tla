--------------------------- MODULE MCModbusPoller ---------------------------
(* Four registers in two blocks.                                           *)
EXTENDS ModbusPoller

MCRegisters == <<1, 2, 3, 4>>
MCBlocks == <<<<1, 2>>, <<3, 4>>>>
=============================================================================
