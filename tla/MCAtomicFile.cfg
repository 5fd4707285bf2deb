CONSTANTS
  go1 = go1
  go2 = go2
  node = node
  old = old
  new = new
  Absent = Absent
  Torn = Torn
  Writers = {go1, go2, node}
  NodeWriters = {node}
  Values = {old, new}
  MaxLitter = 2
SPECIFICATION Spec
INVARIANTS TypeOK
PROPERTIES OnlyNodeTears NeverLost ImplementsFileCell
