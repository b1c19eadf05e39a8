\* Two daemons that share the profile's path, each with any policy at each start, and
\* leases of two seconds, requests of one and clocks that disagree for the first of them.
SPECIFICATION DaemonSpec
CONSTANTS
    p1 = p1
    d2 = d2
    Procs = {p1}
    Others = {d2}
    TTL = 2
    Timeout = 1
    Skews <- SomeSkews
    MaxTime = 6
    ToolNames = {"t1", "t2"}
    Patterns = {"h1"}
    PolicyFiles <- Files
    Platforms = {"macos", "other"}
    None = None
INVARIANTS TypeOK DaemonTypeOK KillSwitch UndisturbedIsOwn
