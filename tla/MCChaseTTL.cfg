CONSTANTS
  n1 = n1
  n2 = n2
  n3 = n3
  n4 = n4
  n5 = n5
  a1 = a1
  a2 = a2
  soa = soa
  Name <- MCName
  qname = n1
  Addr = {a1, a2}
  SOA = {soa}
  NoSOA = NoSOA
  MaxHops = 4
  Reply <- MCReply
SPECIFICATION Spec
INVARIANT
  MinTTLIsLeast
CHECK_DEADLOCK FALSE
