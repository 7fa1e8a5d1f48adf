CONSTANTS
  Regs <- MCRegs
  Imms <- MCImms
  MaxCalls = 2
SPECIFICATION Spec
INVARIANT OperandsRecoverable
