SPECIFICATION MCSpec
CONSTANTS
    MaxEntries = 6
    Attempts = 5
    MaxRounds = 2
    Blocks = 3
    PairingFaults = {"none", "commit", "index", "length", "confirms", "mute", "kc", "reveal", "unwrap", "norekey", "newcode", "open", "shape", "goodbye", "drop"}
    AdapterFaults = {"none", "skip", "swap", "future", "undeclared", "keeps", "header", "long", "short", "depth", "priority", "stale", "wrongart", "drop", "garble", "unavailable", "nocommand", "othercommand", "readsheader", "nopref"}
    OpeningFaults = {"none", "noinit", "badid", "badversion", "badsuite", "extrainit", "nomsg2", "noisepayload", "garbled2",
    "nohello", "goodbyehello", "earlier", "early", "rolesnotlist", "unversioned", "nosupport", "oversupport", "nopsk",
    "bothcodes", "nodisplay", "noaccess", "extrahello", "othername", "nostate", "noavailable", "inactive", "badtime",
    "accepts", "closes", "silent", "wrongreason", "refuses", "refusespaired", "norehandshake", "wrongpsk", "nopairinit",
    "onlyfinalize", "badindex", "commit", "nofinalize", "badkey", "wrapped", "nopromotion"}
INVARIANTS
    BlameIsReal
    PassIsWitnessed
    GapIsIgnorance
    ConformantNotBlamed
    FaultIsFound
    BlameIsFair
PROPERTY EveryoneReports
CHECK_DEADLOCK FALSE
