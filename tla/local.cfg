SPECIFICATION Spec
CONSTANTS
    Submitter = {s1}
    Recoverer = {r1}
    ModalRequest = {m1}
    DockerRequest = d
    Owner = owner
    NoProc = nobody
    AttemptCap = 2
    Canceller = {c1}
    Observer = {o1}
    Container = {k1}
INVARIANTS TypeOK OneFamily SpawnLeavesEvidence CompleteIsFinal CancelledIsFinal
PROPERTIES EvidenceGrows NoRemovalWhileWorking RequestStopsOwner ContainersReclaimed
CHECK_DEADLOCK FALSE
