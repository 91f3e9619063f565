SPECIFICATION Spec
CONSTANTS
    h1 = h1
    h2 = h2
    Token = {"t"}
    Handler = {h1, h2}
    Request = {"r1", "r2"}
    Unfit = {"r1"}
    GrantsLapse = TRUE
    MaxAttempts = 3
SYMMETRY HandlerSymmetry
CHECK_DEADLOCK FALSE
INVARIANTS
    EnrolledMeansCertified
PROPERTIES
    SpentTokenStartsNothing
    ReservationBindsOneRequest
