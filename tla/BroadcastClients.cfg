\* Three browsers, two sockets each.
SPECIFICATION Spec
CONSTANTS
  Browser = {b1, b2, b3}
  MaxConns = 2
  MaxWire = 1
SYMMETRY BrowserSymmetry
INVARIANT TypeOK
INVARIANT LiveClientsStay
