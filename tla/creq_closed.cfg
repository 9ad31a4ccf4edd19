SPECIFICATION Spec
CONSTANTS
    Hosts = {h1, h2}
    Kinds = {"read"}
    ConnsPerHost = 1
    MovedRetries = 1
    TransLen = 2
INVARIANTS
    ReplyOrError
