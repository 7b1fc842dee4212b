CONSTANTS
    Users = {u1, u2, u3}
    Chunks = {c1, c2}
    Nobody = Nobody
    MaxEvents = 2
SPECIFICATION ChatSpec
INVARIANTS ChatTypeOK MembersAgree LostAfterChunk ChunkIsWhole
CHECK_DEADLOCK FALSE
PROPERTY ChunkEnds
