SPECIFICATION Spec
CONSTANTS
 SeqSpace = 16
 ClientIss = 14
 ServerIss = 5
 Mss = 1
 InitWnd = 2
 ClientRx = 1
 ServerRx = 2
 ClientTx = 2
 ServerTx = 2
 ClientScale = 0
 ServerScale = 0
 AckEveryN = 2
 OooCap = 2
 ConnectMaxRetries = 1
 DataMaxRetries = 1
 CwndMax = 4
 Payload = 2
 MaxBatch = 2
 Faults = {"lose", "duplicate", "delay", "early"}
 MaxFaults = 1
INVARIANTS StreamExact NoStall
CHECK_DEADLOCK FALSE
