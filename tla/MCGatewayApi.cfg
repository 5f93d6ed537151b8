SPECIFICATION ApiSpec
CONSTANTS
    i1 = i1
    i2 = i2
    s1 = s1
    s2 = s2
    k1 = k1
    k2 = k2
    r1 = r1
    r2 = r2
    Names = {"expense", "hr"}
    Keys = {k1, k2}
    NotJSON = NotJSON
    Malformed = Malformed
    Unset = Unset
    Refused = Refused
    NoCaller = NoCaller
    Nil = Nil
    Replica = {r1, r2}
    consumer = consumer
    Consumer = consumer
    Environments <- MCEnvironments
    Intent = {i1, i2}
    Request <- MCRequest
    Slot = {s1, s2}
    Outcomes <- MCOutcomes
INVARIANTS ApiTypeOK OneDocumentPerIntent LearnedIsOwn RoutedToSubmitter RefusedForCause DeadLetteredForCause PolledIsOcrs
SYMMETRY Symmetry
