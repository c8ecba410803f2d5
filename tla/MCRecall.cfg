SPECIFICATION Spec
CONSTANTS
    m1 = m1
    m2 = m2
    Requests = {r1}
    Banks <- Order
    Replies <- Answers
    Memories = {m1, m2}
    Contents <- Cs
    Digest <- DigestOf
    Unsafe = {"risky", "tampered"}
    Exposed = {"tampered"}
CHECK_DEADLOCK FALSE

    
PROPERTIES
    RecallFollowsReview
