SPECIFICATION DeploySpec
CONSTANTS
    None = None
    Wasm = {w1, w2}
    \* As the files are: neither has a line of the patterns'.
    Matched = {}
    MaxDeploys = 5
INVARIANT
    EditsRecord
CHECK_DEADLOCK FALSE
