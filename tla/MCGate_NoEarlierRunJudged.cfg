CONSTANTS
    c0 = c0  c1 = c1
    Gates = {g1, g2}
    Repos = {iverilog, nvc}
    Commits <- MCCommits
    Anc <- MCAnc
    Root = c0
    Blocks = {b1}
    Unchecked = {nvc}
    MaxJobs = 2
    None = None
    Torn = Torn
SPECIFICATION Spec
INVARIANT NoEarlierRunJudged
CHECK_DEADLOCK FALSE
