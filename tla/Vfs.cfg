SPECIFICATION Spec
CONSTANTS
  Names = {"x/f", "X/f", "y/f"}
  Key <- MCKey
  BaseOf <- MCBaseOf
  Suffixes = {"f", "x/f"}
  EndsIn <- MCEndsIn
  SuffixBase <- MCSuffixBase
  Texts = {t1, t2}
  Readers = {r1, r2}
  None = None
  Placeholder = Placeholder
  MaxFiles = 2
  MaxRevision = 3
INVARIANTS OneTextPerVersion SnapshotIsDenoted SuffixLookupExact
PROPERTIES RevisionCoversContent SnapshotReturns
