SPECIFICATION RpcSpec
CONSTANTS
    Callers = {c1, c2}
    MaxLinks = 3
    Nobody = nobody
CHECK_DEADLOCK FALSE
INVARIANT LinksAreSound
PROPERTIES CallsReturn RunsAtMostOnce
