\* One name, one client with a key of its own.
SPECIFICATION Spec
CONSTANTS
    Aliases = {alice}
    ServerKeys = {s1, s2}
    ClientKeys = {c}
    MaxEvents = 2
    None = None
PROPERTY RequestRepeatable
