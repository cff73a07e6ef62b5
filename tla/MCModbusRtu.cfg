CONSTANTS
  Requests <- MCRequests
  Kind <- MCKind
  To <- MCTo
  MaxFaults = 1
  MaxUpsets = 1
SPECIFICATION Spec
INVARIANT WholeRequest
INVARIANT OncePerRequest
INVARIANT AssertsHold
PROPERTY Answered
