SPECIFICATION Spec
CONSTANTS
  l1 = l1
  l2 = l2
  v1 = v1
  v2 = v2
  Lbas = {l1, l2}
  Values = {v1, v2}
  Polls = 2
  Errors = FALSE
PROPERTIES WritesAreFlushed
