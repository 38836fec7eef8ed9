SPECIFICATION EndsSpec
CONSTANTS
    t1 = t1  t2 = t2  x = x  y = y  s1 = s1  s2 = s2  l1 = l1  w1 = w1  c1 = c1  n1 = n1
    ada = ada  max = max  uv = uv  ego = ego
    None = None
CONSTRAINTS NoAccess SignedIn
CHECK_DEADLOCK FALSE
PROPERTIES
    EveryOperationEnds
    EveryViewSettles
