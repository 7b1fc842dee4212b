CONSTANTS
    Users = {u1, u2, u3}
    Chunks = {c1, c2}
    Nobody = Nobody
    MaxEvents = 2
SPECIFICATION ChatSpec

CHECK_DEADLOCK FALSE
PROPERTY ChunkHasAll
