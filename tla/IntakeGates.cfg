SPECIFICATION Spec
CONSTANTS
    Required = {"latitude"}
    Optional = {"altitude"}
    Ranged = {"gps"}
    Ingestions = {"i1"}
    Requests = {r1, r2, r3, r4}
    Schemas = {"gps"}
    Extensions = {"csv", "bin"}
    ALLOWED_EXTENSIONS = {"csv"}
    RecordExtensions = {"csv"}
    Contents <- MCContents
    Tampered <- MCTampered
    SourceTypes = {"none", "imu"}
    MAX_UPLOAD_SIZE = 2
    NoFile = NoFile
    None = None
SYMMETRY MCSymmetry
INVARIANT NormalizationIsGrounded
INVARIANT NormalizedAsChecked
INVARIANT SeenVerdictsAreHeeded
CHECK_DEADLOCK FALSE
