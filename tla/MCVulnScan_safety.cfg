SPECIFICATION Spec
CONSTANTS
    Packages = {"kernel", "openssl"}
    InstallOnly = {"kernel"}
    Evrs <- MCEvrs
    RedHatMajors = {9}
    Documents <- MCDocuments
    Exports <- MCExports
    Builds <- MCBuilds
    Revisions <- MCRevisions
INVARIANT NoMissedVulnerability
INVARIANT NoFoundlessFinding
PROPERTY UpdatesNeverExpose
CHECK_DEADLOCK FALSE
