SPECIFICATION ConsolesSpec
CONSTANTS
    w1 = w1  w2 = w2  a1 = a1  a2 = a2  ada = ada  max = max  eve = eve  t1 = t1  t2 = t2  x = x  y = y  p1 = p1
    dir1 = dir1  dir2 = dir2  nodir = nodir  k1 = k1  k2 = k2  c1 = c1  c2 = c2
    None = None
    Tabs <- MCTabs
    Admins <- MCAdmins
    Mentors <- MCMentors
    Students <- MCStudents
    MaxTokens = 3
    MaxCalls = 2
SYMMETRY Symmetry
CONSTRAINTS NothingLate OneLoad OnlySaves OnlyKeys OneCall DraftsEarly OneSave NothingDeleted OnlySends InOrder
CHECK_DEADLOCK FALSE
INVARIANTS
    FormIsTheirs
    FrameTellsTruth
PROPERTIES
    UnsavedWorkKept
    ChatsKept
