SPECIFICATION FairSpec
CONSTANTS
  Users = {u1, u2, u3}
  Nobody = Nobody
  Expected = 2
  TeamSize = 1
  IsRanked = FALSE
  MaximumMembers = 2
  MaxParties = 1
  MaxReservations = 2
  Leavers = {u1}
INVARIANTS TypeOK PartyAgrees QueueAgrees
PROPERTIES LeaveOnlyGone FillServes
