SPECIFICATION FairSpec
CONSTANTS
  Roles = {"offerer", "answerer"}
  Initial = {"s1"}
  ServerTracks = {"s2"}
  ClientTracks = {"c1"}
  MaxOutbound = 2
  MaxPending = 1
  MaxCandidates = 1
  Faults = {"lost", "closed", "answer_timeout", "rejected_candidate",
            "failed_description"}
INVARIANTS
  TypeOK
  Agreement
  CandidatesFollow
PROPERTIES
  CallsEnd
