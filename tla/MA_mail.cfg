SPECIFICATION Spec
CONSTANTS
    InPlay = {"mailboxes", "folders", "import", "query", "parts", "compose", "html", "wire", "stream", "sieve"}
    Actors = {a1, a2}
SYMMETRY Symmetry
CHECK_DEADLOCK FALSE
INVARIANTS   ReadAsWritten  
