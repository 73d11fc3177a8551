\* One caller queueing four commands on a ring of three slots, so the fourth
\* call reuses slot 0; one retry, at most two RESEND or error bytes.
CONSTANTS
  k1 = k1
  a1 = a1
  a2 = a2
  Callers <- MCCallers
  Cmds <- MCCmds
  RespCmds <- MCRespCmds
  MaxCommands = 3
  MaxRetries = 1
  MaxIssued = 4
  Timeouts = TRUE
  MaxFaults = 2
SPECIFICATION Spec
INVARIANTS TypeOK
\* The caller stops after MaxIssued commands; the port then waits for it.
CHECK_DEADLOCK FALSE
