SPECIFICATION SocketSpec
CONSTANT Arrays <- MCArrays
INVARIANTS
  CursorExact
  ReturnContract
