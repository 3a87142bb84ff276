SPECIFICATION CodecSpec
CONSTANTS
    Dataclass = {"Task", "Gone"}
    Model = {"Order"}
    Custom = {"Money"}
    Opaque = {"Socket"}
    Absent = {"Gone"}
    Shape <- Shapes
    Decl <- Declarations
INVARIANTS RoundTrip 
CHECK_DEADLOCK FALSE
