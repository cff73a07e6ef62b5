---------------------------- MODULE MCModbusRtu -----------------------------
EXTENDS ModbusRtu

\* A read and a write of this slave, a broadcast, and a request to another slave.
MCRequests == {"read", "write", "all", "other"}
MCKind == [r \in MCRequests |-> IF r = "read" THEN "read" ELSE "write"]
MCTo == [r \in MCRequests |-> IF r \in {"all", "other"} THEN r ELSE "us"]
=============================================================================
